---------------------------- MODULE Spec2Model ----------------------------
(***************************************************************************)
(* Verification model of airbnb-organizer: the Brazilian rental tax        *)
(* calculator, the monthly aggregation and the Google Sheets               *)
(* synchronisation hook (useDataSync).                                     *)
(*                                                                         *)
(* Conventions                                                             *)
(*   - money is an integer number of cents; a tax rate is an integer       *)
(*     number of thousandths (0.075 is 75), so rate * cents is in          *)
(*     thousandths of a cent.  The arithmetic is exact decimal arithmetic. *)
(*   - a Date is an instant: the number of hours since 2024-11-01T00:00Z.  *)
(*     The environment's UTC offset (whole hours) is the variable          *)
(*     tzOffset; local-calendar getters read instant + tzOffset.           *)
(*   - a string that the code builds or parses is a sequence of            *)
(*     one-character strings.                                              *)
(***************************************************************************)
EXTENDS Integers, Sequences, FiniteSets, TLC

VARIABLES
    \* ---- the pure tax calculator under test
    taxIn,          \* [liquidIncome, dependents] handed to calculateTax
    taxOut,         \* what calculateTax returned, or NoResult
    \* ---- environment
    tzOffset,       \* UTC offset of the browser, in hours
    \* ---- redux store
    reservations,   \* state.reservations.items
    expenses,       \* state.expenses.items
    settings,       \* state.settings.settings
    paidMonths,     \* state.taxes.paidMonths
    sheetId,        \* state.settings.sheetId
    dataLoading,    \* state.app.dataLoading
    dataLoaded,     \* state.app.dataLoaded
    \* ---- the monthly aggregation under test
    summary,        \* the MonthlyTaxSummary last materialised, or NoResult
    \* ---- GoogleAuthProvider
    isSignedIn,
    accessToken,
    tokenExpiresAt,
    sessionExpired,
    signInStage,    \* where the login flow stands: "none", "popup", "userinfo"
    \* ---- GoogleSheetsService
    svcToken,       \* googleSheetsService.accessToken
    \* ---- useDataSync
    isLoadingData,  \* the ref isLoadingData.current (the read-lock flag)
    timers,         \* per auto-save hook, its pending setTimeout callbacks
    settleTimers,   \* pending "isLoadingData.current = false" timeouts (ticks left)
    loads,          \* loadData invocations that await a read
    writes,         \* save callbacks that await a request
    initPending,    \* Onboarding awaits googleSheetsService.initializeSheets
    \* ---- observation
    lastError,      \* the failed response the coordinator handled in the last
                    \* step, or NoResult
    inputs,         \* how many inputs the environment has made
    \* ---- the taxes reducers under test
    paidTrail,      \* the last dispatches to taxesSlice: [op, month, before, after]
    \* ---- the spreadsheet and the service calls that write it
    remote,         \* per range ("airbnb", "airbnb_expenses"), the rows the sheet holds
    calls,          \* writeReservations / writeExpenses calls awaiting a response
    done,           \* the call that settled in the last step, or NoResult
    trip,           \* the collection before and after the last read of a range
                    \* the sheet held in sync, or NoResult
    sheetOps,       \* how many writes, reads and deletions have been started
    settingsCells,  \* the cells of settings!A2:B4: [dependents, owner_split,
                    \*  admin_split], or NoResult for a sheet without rows
    \* ---- GoogleAuthProvider with the browser storages
    persistAuth,    \* the provider's persistAuth state
    userEmail,
    authError,      \* the provider's error state
    persistAuthItem,\* localStorage 'persistAuth'
    localStorage,   \* the googleAuth_* entries of localStorage
    sessionStorage, \* the googleAuth_* entries of sessionStorage
    now,            \* Date.now(), in milliseconds
    authEvent,      \* what the provider did in the last step
    attempt,        \* the auth state when the sign-in in progress was started
    \* ---- the dashboard's tax notification under test
    today,          \* new Date() when the dashboard rendered
    notice,         \* what getMostRecentUnpaidMonth returned, or NoResult
    \* ---- the taxes range of the spreadsheet
    remoteTax,      \* the rows of taxes!A2:G: [month, isPaid]
    unmarked,       \* the months the user has marked unpaid on the Taxes page
    \* ---- observation of the writes
    sheetLog,       \* per write function: the collection its latest call carried
                    \* and whether no call of it has failed, or NoResult
    unsaved         \* the collections a page changed and no save callback has
                    \* handed to the service since

authVars == <<isSignedIn, accessToken, tokenExpiresAt, sessionExpired, signInStage>>
dataVars == <<reservations, expenses, settings, paidMonths>>
paidVars == <<paidTrail>>
sheetVars == <<remote, calls, done, trip, sheetOps, sheetLog>>
cellVars == <<settingsCells>>
storageVars == <<persistAuth, userEmail, authError, persistAuthItem, localStorage,
                 sessionStorage, now, authEvent, attempt>>
asideVars == <<today, notice, remoteTax, unmarked>>
probeVars == <<paidVars, sheetVars, cellVars, storageVars, asideVars>>
pureVars == <<taxIn, taxOut, summary, probeVars>>
syncVars == <<sheetId, dataLoading, dataLoaded, isSignedIn, accessToken, tokenExpiresAt,
              sessionExpired, signInStage, svcToken, isLoadingData, timers,
              settleTimers, loads, writes, initPending, lastError, inputs, unsaved>>

vars == <<taxIn, taxOut, tzOffset, reservations, expenses, settings, paidMonths,
          sheetId, dataLoading, dataLoaded, summary, isSignedIn, accessToken,
          tokenExpiresAt, sessionExpired, signInStage, svcToken,
          isLoadingData, timers, settleTimers, loads, writes, initPending, lastError, inputs,
          paidTrail, remote, calls, done, trip, sheetOps, settingsCells,
          persistAuth, userEmail, authError, persistAuthItem, localStorage,
          sessionStorage, now, authEvent, attempt, today, notice, remoteTax,
          unmarked, sheetLog, unsaved>>

Null == "null"

NoResult == [none |-> TRUE]

Max(a, b) == IF a >= b THEN a ELSE b
Min(a, b) == IF a <= b THEN a ELSE b

(***************************************************************************)
(* Bounds of the model                                                     *)
(***************************************************************************)
MaxDependents == 5
MaxItems == 2

(***************************************************************************)
(* JavaScript strings and numbers                                          *)
(***************************************************************************)
DIGITS == <<"0", "1", "2", "3", "4", "5", "6", "7", "8", "9">>

DigitChar(d) == DIGITS[d + 1]

DigitValue(c) == CHOOSE d \in 0..9 : DIGITS[d + 1] = c

\* String(n) for a non-negative integer
RECURSIVE NumberToString(_)
NumberToString(n) ==
    IF n < 10 THEN <<DigitChar(n)>>
    ELSE NumberToString(n \div 10) \o <<DigitChar(n % 10)>>

\* s.padStart(2, '0')
PadStart2(s) == IF Len(s) < 2 THEN <<"0">> \o s ELSE s

\* Number(s) for a string of digits
RECURSIVE StringToNumber(_)
StringToNumber(s) ==
    IF Len(s) = 0 THEN 0
    ELSE 10 * StringToNumber(SubSeq(s, 1, Len(s) - 1)) + DigitValue(s[Len(s)])

\* UTF-16 code unit order of the characters that occur in month keys
CharCode(c) == IF c = "-" THEN 45 ELSE 48 + DigitValue(c)

\* a < b for strings (lexicographic by code unit)
RECURSIVE StringLess(_, _)
StringLess(a, b) ==
    IF Len(b) = 0 THEN FALSE
    ELSE IF Len(a) = 0 THEN TRUE
    ELSE IF CharCode(a[1]) # CharCode(b[1]) THEN CharCode(a[1]) < CharCode(b[1])
    ELSE StringLess(Tail(a), Tail(b))

\* Math.round(x) where x is given in thousandths: floor(x + 0.5)
MathRoundThousandths(x) == (x + 500) \div 1000

(***************************************************************************)
(* JavaScript Date over a window of the proleptic calendar                 *)
(***************************************************************************)
CalendarMonths ==
    << [year |-> 2024, month |-> 11, days |-> 30],
       [year |-> 2024, month |-> 12, days |-> 31],
       [year |-> 2025, month |-> 1,  days |-> 31],
       [year |-> 2025, month |-> 2,  days |-> 28],
       [year |-> 2025, month |-> 3,  days |-> 31] >>

RECURSIVE DaysBefore(_)
DaysBefore(i) == IF i <= 1 THEN 0 ELSE DaysBefore(i - 1) + CalendarMonths[i - 1].days

\* calendar fields of a day number (day 0 is 2024-11-01)
CivilFromDay(n) ==
    LET i == CHOOSE j \in 1..Len(CalendarMonths) :
                 DaysBefore(j) <= n /\ n < DaysBefore(j) + CalendarMonths[j].days
    IN  [year |-> CalendarMonths[i].year, month |-> CalendarMonths[i].month,
         day |-> n - DaysBefore(i) + 1]

DayFromCivil(y, m, d) ==
    LET i == CHOOSE j \in 1..Len(CalendarMonths) :
                 CalendarMonths[j].year = y /\ CalendarMonths[j].month = m
    IN  DaysBefore(i) + d - 1

\* new Date(year, monthIndex, day): local midnight of that calendar day
NewDate(year, monthIndex, day) == DayFromCivil(year, monthIndex + 1, day) * 24 - tzOffset

getFullYear(date) == CivilFromDay((date + tzOffset) \div 24).year
getMonth(date) == CivilFromDay((date + tzOffset) \div 24).month - 1
getDate(date) == CivilFromDay((date + tzOffset) \div 24).day
getUTCFullYear(date) == CivilFromDay(date \div 24).year
getUTCMonth(date) == CivilFromDay(date \div 24).month - 1
getUTCDate(date) == CivilFromDay(date \div 24).day

(***************************************************************************)
(* BrazilianRentalTaxCalculator                                            *)
(***************************************************************************)
DEPENDENT_DEDUCTION == 18959
SIMPLIFIED_DEDUCTION == 60720
Infinity == 999999999

TAX_BRACKETS ==
    << [maxIncome |-> 242881,   rate |-> 0,   deduction |-> 18216],
       [maxIncome |-> 282666,   rate |-> 75,  deduction |-> 18216],
       [maxIncome |-> 375105,   rate |-> 150, deduction |-> 39416],
       [maxIncome |-> 466468,   rate |-> 225, deduction |-> 67549],
       [maxIncome |-> Infinity, rate |-> 275, deduction |-> 90873] >>

\* x < maxIncome, where maxIncome may be Infinity
LessThanMax(x, maxIncome) == maxIncome = Infinity \/ x < maxIncome

\* Array.prototype.find: the first element satisfying the test, else the fallback
findTaxBracket(taxableIncome) ==
    LET hits == {i \in 1..Len(TAX_BRACKETS) :
                    LessThanMax(taxableIncome, TAX_BRACKETS[i].maxIncome)}
    IN  IF hits # {}
        THEN TAX_BRACKETS[CHOOSE i \in hits : \A j \in hits : i <= j]
        ELSE TAX_BRACKETS[Len(TAX_BRACKETS)]

deductionMin(dependents) ==
    Min(dependents * DEPENDENT_DEDUCTION, SIMPLIFIED_DEDUCTION)

\* step 1: the greater of the dependent and the simplified deduction
deductionFor(dependents) ==
    Max(dependents * DEPENDENT_DEDUCTION, SIMPLIFIED_DEDUCTION)

\* step 2
taxableIncomeOf(liquidIncome, deduction) == Max(liquidIncome - deduction, 0)

\* in thousandths of a cent
taxBeforeFloor(taxableIncome, bracket) ==
    taxableIncome * bracket.rate - bracket.deduction * 1000

taxOwedUnfloored(taxableIncome, bracket) == taxBeforeFloor(taxableIncome, bracket)

\* Math.max(taxBeforeFloor, 0), in thousandths of a cent
taxOwedFloored(taxableIncome, bracket) ==
    Max(taxBeforeFloor(taxableIncome, bracket), 0)

calculateTax(liquidIncome, dependents) ==
    LET deduction == deductionFor(dependents)
        taxableIncome == taxableIncomeOf(liquidIncome, deduction)
        bracket == findTaxBracket(taxableIncome)
        taxOwed == taxOwedFloored(taxableIncome, bracket)
    IN  [deduction |-> deduction,
         taxableIncome |-> taxableIncome,
         taxRate |-> bracket.rate,
         taxOwed |-> MathRoundThousandths(taxOwed)]

(***************************************************************************)
(* utils/taxCalculations                                                   *)
(***************************************************************************)
formatMonthUTC(date) ==
    NumberToString(getUTCFullYear(date)) \o <<"-">>
        \o PadStart2(NumberToString(getUTCMonth(date) + 1))

formatMonth(date) ==
    NumberToString(getFullYear(date)) \o <<"-">>
        \o PadStart2(NumberToString(getMonth(date) + 1))

\* monthStr.split('-').map(Number), then new Date(year, month - 1, 1)
parseMonth(monthStr) ==
    LET dash == CHOOSE i \in 1..Len(monthStr) :
                    monthStr[i] = "-" /\ \A j \in 1..(i - 1) : monthStr[j] # "-"
        year == StringToNumber(SubSeq(monthStr, 1, dash - 1))
        month == StringToNumber(SubSeq(monthStr, dash + 1, Len(monthStr)))
    IN  NewDate(year, month - 1, 1)

\* items.filter(x => formatMonth(x.date) === month), in order
RECURSIVE ItemsOfMonth(_, _)
ItemsOfMonth(items, month) ==
    IF Len(items) = 0 THEN <<>>
    ELSE (IF formatMonth(items[1].date) = month THEN <<items[1]>> ELSE <<>>)
             \o ItemsOfMonth(Tail(items), month)

\* the Map built by groupReservationsByMonth: key -> the reservations of that month
groupReservationsByMonth(rs) ==
    [month \in {formatMonth(rs[i].date) : i \in 1..Len(rs)} |-> ItemsOfMonth(rs, month)]

groupExpensesByMonth(es) ==
    [month \in {formatMonth(es[i].date) : i \in 1..Len(es)} |-> ItemsOfMonth(es, month)]

\* map.get(key) || []
GetOrEmpty(map, key) == IF key \in DOMAIN map THEN map[key] ELSE <<>>

RECURSIVE SumOwnerAmount(_)
SumOwnerAmount(rs) ==
    IF Len(rs) = 0 THEN 0 ELSE rs[1].ownerAmount + SumOwnerAmount(Tail(rs))

RECURSIVE SumAmount(_)
SumAmount(es) ==
    IF Len(es) = 0 THEN 0 ELSE es[1].amount + SumAmount(Tail(es))

profitMasked(liquidIncome, taxOwed) == Max(liquidIncome - taxOwed, 0)

profitOf(liquidIncome, taxOwed) == liquidIncome - taxOwed

calculateMonthlyTax(month, rs, es, dependents, isPaid) ==
    LET totalIncome == SumOwnerAmount(rs)
        totalDeductions == SumAmount(es)
        liquidIncome == totalIncome - totalDeductions
        taxCalculation == calculateTax(liquidIncome, dependents)
    IN  [month |-> month,
         totalIncome |-> totalIncome,
         totalDeductions |-> totalDeductions,
         liquidIncome |-> liquidIncome,
         deduction |-> taxCalculation.deduction,
         taxableIncome |-> taxCalculation.taxableIncome,
         taxRate |-> taxCalculation.taxRate,
         taxOwed |-> taxCalculation.taxOwed,
         profit |-> profitOf(liquidIncome, taxCalculation.taxOwed),
         isPaid |-> isPaid]

\* Array.from(set).sort().reverse(): month keys, most recent first
RECURSIVE SortDescending(_)
SortDescending(S) ==
    IF S = {} THEN <<>>
    ELSE LET top == CHOOSE x \in S : \A y \in S : ~StringLess(x, y)
         IN  <<top>> \o SortDescending(S \ {top})

getAllMonths(rs, es) ==
    SortDescending({formatMonth(rs[i].date) : i \in 1..Len(rs)}
                   \cup {formatMonth(es[i].date) : i \in 1..Len(es)})

\* paidMonths.includes(month)
Includes(seq, x) == \E i \in 1..Len(seq) : seq[i] = x

\* Array.prototype.filter(month => month !== m)
FilterOut(seq, m) == SelectSeq(seq, LAMBDA x : x # m)

markMonthAsPaidAlwaysPushes(paid, m) == Append(paid, m)

\* taxesSlice.reducers.markMonthAsPaid
markMonthAsPaid(paid, m) == IF ~Includes(paid, m) THEN Append(paid, m) ELSE paid

\* taxesSlice.reducers.markMonthAsUnpaid
markMonthAsUnpaid(paid, m) == FilterOut(paid, m)

\* the summary a page or saveTaxData materialises for one month key
MonthlyTaxOf(month, rs, es, dependents, paid) ==
    calculateMonthlyTax(month,
                        GetOrEmpty(groupReservationsByMonth(rs), month),
                        GetOrEmpty(groupExpensesByMonth(es), month),
                        dependents,
                        Includes(paid, month))


\* calculateYearProfit: the summary of one month (1..12) of one calendar year
RECURSIVE ItemsOfYear(_, _)
ItemsOfYear(items, year) ==
    IF Len(items) = 0 THEN <<>>
    ELSE (IF getFullYear(items[1].date) = year THEN <<items[1]>> ELSE <<>>)
             \o ItemsOfYear(Tail(items), year)

YearMonthTaxOf(year, month, rs, es, dependents) ==
    LET monthStr == NumberToString(year) \o <<"-">> \o PadStart2(NumberToString(month))
    IN  calculateMonthlyTax(monthStr,
                            GetOrEmpty(groupReservationsByMonth(ItemsOfYear(rs, year)), monthStr),
                            GetOrEmpty(groupExpensesByMonth(ItemsOfYear(es, year)), monthStr),
                            dependents,
                            FALSE)

getAvailableYears(rs, es) ==
    {getFullYear(rs[i].date) : i \in 1..Len(rs)}
        \cup {getFullYear(es[i].date) : i \in 1..Len(es)}

(***************************************************************************)
(* Forms: NewReservation.handleSubmit and ExpensesMonth / NewExpense       *)
(***************************************************************************)
\* the split is held in hundredths (0.70 is 70)
MakeReservation(id, form, s) ==
    [id |-> id,
     date |-> NewDate(form.year, form.month - 1, form.day),
     nights |-> form.nights,
     total |-> form.total,
     ownerAmount |-> (form.total * s.ownerSplit) \div 100,
     adminFee |-> (form.total * s.adminSplit) \div 100]

MakeExpense(id, form) ==
    [id |-> id,
     date |-> NewDate(form.year, form.month - 1, form.day),
     amount |-> form.amount]

\* `reservation-${index}` / `expense-${index}`: the id of an item read from a row
RowId(index) == [kind |-> "row", n |-> index]

DefaultSettings == [dependents |-> 0, ownerSplit |-> 70, adminSplit |-> 30]

(***************************************************************************)
(* useDataSync: the auto-save hooks, the load and the write callbacks      *)
(*                                                                         *)
(* Time advances in ticks of half a debounce period.  A pending timeout    *)
(* holds the ticks it has left and fires when none are left.               *)
(***************************************************************************)
DEBOUNCE_MS == 1000
SETTLE_MS == 100

\* a delay in milliseconds as a number of ticks, rounded up
TicksFor(ms) == (ms + 499) \div 500

DebounceTicks == TicksFor(DEBOUNCE_MS)
SettleTicks == TicksFor(SETTLE_MS)

\* bounds of the exploration
MaxSyncItems == 1
MaxInflight == 1
MaxLoads == 1
MaxInputs == 3

HOOKS == {"reservations", "expenses", "settings", "paidMonths", "taxDependencies"}
COLLECTIONS == {"reservations", "expenses", "settings"}

\* the guard at the top of the useDebouncedAutoSave effect
autoSaveSkipsIgnoringLoad(signedIn, sheet, loading) ==
    ~signedIn \/ sheet = Null

autoSaveSkips(signedIn, sheet, loading) ==
    ~signedIn \/ sheet = Null \/ loading

\* the cleanup of the useDebouncedAutoSave effect: clearTimeout(timeoutId)
cleanupAutoSave(pending) == <<>>

\* handleApiError: does this error sign the user out?
handleApiErrorIgnoresExpiry(code) == FALSE

handleApiError(code) == code = "TOKEN_EXPIRED"

\* what the save callback of a hook closes over
SaveClosure(h, rs, es, st, pm) ==
    CASE h = "reservations" -> [fn |-> "saveReservations", data |-> rs]
      [] h = "expenses"     -> [fn |-> "saveExpenses", data |-> es]
      [] h = "settings"     -> [fn |-> "saveSettings", data |-> st]
      [] OTHER              -> [fn |-> "saveTaxData", rs |-> rs, es |-> es,
                                dependents |-> st.dependents, pm |-> pm]

\* saveTaxData keeps the months that match /^\d{4}-\d{2}$/
IsMonthKey(m) ==
    /\ Len(m) = 7
    /\ m[5] = "-"
    /\ \A i \in {1, 2, 3, 4, 6, 7} : \E d \in 0..9 : m[i] = DigitChar(d)

\* saveTaxData: one row per month that has data
TaxRowOf(monthlyTax) ==
    [month |-> monthlyTax.month,
     income |-> monthlyTax.totalIncome,
     deductions |-> monthlyTax.totalDeductions,
     taxRate |-> monthlyTax.taxRate,
     taxOwed |-> monthlyTax.taxOwed,
     profit |-> monthlyTax.profit,
     isPaid |-> monthlyTax.isPaid]

RECURSIVE TaxRows(_, _, _, _, _)
TaxRows(months, rs, es, dependents, pm) ==
    IF months = <<>> THEN <<>>
    ELSE (IF IsMonthKey(months[1])
          THEN <<TaxRowOf(MonthlyTaxOf(months[1], rs, es, dependents, pm))>>
          ELSE <<>>)
             \o TaxRows(Tail(months), rs, es, dependents, pm)

saveTaxDataRows(c) == TaxRows(getAllMonths(c.rs, c.es), c.rs, c.es, c.dependents, c.pm)

\* the rows a save callback hands to the service
RowsOf(c) == IF c.fn = "saveTaxData" THEN saveTaxDataRows(c) ELSE c.data

\* does the callback call the service at all?  saveTaxData returns early
\* when no month has data, and writes only if it has rows
CallsService(c) == c.fn # "saveTaxData" \/ Len(saveTaxDataRows(c)) > 0

\* the first request of a write: writeSettings is a single PUT, the others
\* clear the range first
FirstPhase(fn) == IF fn = "saveSettings" THEN "put" ELSE "clear"

RemoveAt(seq, i) == [j \in 1..(Len(seq) - 1) |-> IF j < i THEN seq[j] ELSE seq[j + 1]]

NoTimers == [h \in HOOKS |-> <<>>]

\* the sync machinery at rest: signed out, nothing pending
SyncIdle ==
    /\ sheetId = Null
    /\ dataLoading = FALSE
    /\ dataLoaded = FALSE
    /\ isSignedIn = FALSE
    /\ accessToken = Null
    /\ tokenExpiresAt = Null
    /\ sessionExpired = FALSE
    /\ signInStage = "none"
    /\ svcToken = Null
    /\ isLoadingData = FALSE
    /\ timers = NoTimers
    /\ settleTimers = <<>>
    /\ loads = <<>>
    /\ writes = <<>>
    /\ initPending = FALSE
    /\ lastError = NoResult
    /\ inputs = 0
    /\ unsaved = {}

\* the reducers and providers probed by the smaller specifications, untouched
NoWrites == [writeReservations |-> NoResult, writeExpenses |-> NoResult]

SheetIdle ==
    /\ remote = [airbnb |-> <<>>, airbnb_expenses |-> <<>>]
    /\ calls = <<>>
    /\ done = NoResult
    /\ trip = NoResult
    /\ sheetOps = 0
    /\ sheetLog = NoWrites

\* the dashboard has not rendered, the taxes range is empty
AsideIdle ==
    /\ today = 0
    /\ notice = NoResult
    /\ remoteTax = <<>>
    /\ unmarked = {}

\* no googleAuth_* entry is stored
NoEntries == [isSignedIn |-> Null, userEmail |-> Null, accessToken |-> Null,
              expiresAt |-> Null]

StorageIdle ==
    /\ persistAuth = TRUE
    /\ userEmail = Null
    /\ authError = Null
    /\ persistAuthItem = Null
    /\ localStorage = NoEntries
    /\ sessionStorage = NoEntries
    /\ now = 0
    /\ authEvent = NoResult
    /\ attempt = NoResult

ProbeIdle ==
    /\ paidTrail = <<>>
    /\ SheetIdle
    /\ settingsCells = NoResult
    /\ StorageIdle
    /\ AsideIdle

(***************************************************************************)
(* Specification SpecTax: calculateTax applied to bounded inputs           *)
(***************************************************************************)
TaxableProbes ==
    {0, 1, 100000, 242880, 242881, 242882, 250000, 282665, 282666, 282667,
     300000, 375104, 375105, 375106, 400000, 466467, 466468, 466469, 500000,
     929280}

LiquidIncomes ==
    {-20000, -1, 0, 50000, 60719, 60720, 60721, 990000}
        \cup {b + t : b \in {60720, 75836, 94795}, t \in TaxableProbes}

InitTax ==
    /\ taxIn \in [liquidIncome : LiquidIncomes, dependents : 0..MaxDependents]
    /\ taxOut = NoResult
    /\ tzOffset = 0
    /\ reservations = <<>>
    /\ expenses = <<>>
    /\ settings = DefaultSettings
    /\ paidMonths = <<>>
    /\ summary = NoResult
    /\ SyncIdle
    /\ ProbeIdle

CalculateTax ==
    /\ taxOut = NoResult
    /\ taxOut' = calculateTax(taxIn.liquidIncome, taxIn.dependents)
    /\ UNCHANGED <<taxIn, tzOffset, reservations, expenses, settings,
                   paidMonths, summary>>
    /\ UNCHANGED syncVars
    /\ UNCHANGED probeVars

NextTax == CalculateTax

SpecTax == InitTax /\ [][NextTax]_vars

(***************************************************************************)
(* Specification SpecMonth: the monthly aggregation over bounded inputs    *)
(***************************************************************************)
TzOffsets == {-3, 0, 9}

ReservationForms ==
    { [year |-> 2024, month |-> 12, day |-> 31, nights |-> 2, total |-> 50000],
      [year |-> 2025, month |-> 1,  day |-> 1,  nights |-> 3, total |-> 50000],
      [year |-> 2025, month |-> 1,  day |-> 1,  nights |-> 5, total |-> 700000],
      [year |-> 2025, month |-> 1,  day |-> 31, nights |-> 4, total |-> 700000] }

ExpenseForms ==
    { [year |-> 2025, month |-> 1, day |-> 1, amount |-> 10000],
      [year |-> 2025, month |-> 2, day |-> 1, amount |-> 80000] }

\* all sequences over S of length at most n
SeqsUpTo(S, n) == UNION {[1..k -> S] : k \in 0..n}

InitMonth ==
    /\ taxIn = [liquidIncome |-> 0, dependents |-> 0]
    /\ taxOut = NoResult
    /\ tzOffset \in TzOffsets
    /\ settings \in {[DefaultSettings EXCEPT !.dependents = d] : d \in {0, MaxDependents}}
    /\ \E forms \in SeqsUpTo(ReservationForms, MaxItems) :
           reservations = [i \in 1..Len(forms) |-> MakeReservation(i, forms[i], settings)]
    /\ \E forms \in SeqsUpTo(ExpenseForms, MaxItems) :
           expenses = [i \in 1..Len(forms) |-> MakeExpense(i, forms[i])]
    /\ paidMonths \in {<<>>, <<formatMonth(NewDate(2025, 0, 1))>>}
    /\ summary = NoResult
    /\ SyncIdle
    /\ ProbeIdle

\* Taxes page / saveTaxData: the summary of a month that has data
SummarizeMonth ==
    /\ summary = NoResult
    /\ \E i \in 1..Len(getAllMonths(reservations, expenses)) :
           LET month == getAllMonths(reservations, expenses)[i]
           IN  summary' = [by |-> "Taxes",
                           isPaidArg |-> Includes(paidMonths, month),
                           result |-> MonthlyTaxOf(month, reservations, expenses,
                                                   settings.dependents, paidMonths)]
    /\ UNCHANGED <<taxIn, taxOut, tzOffset, reservations, expenses, settings, paidMonths>>
    /\ UNCHANGED syncVars
    /\ UNCHANGED probeVars

\* year-over-year chart: the summary of any month of a year that has data
SummarizeYearMonth ==
    /\ summary = NoResult
    /\ \E year \in getAvailableYears(reservations, expenses), month \in 1..12 :
           summary' = [by |-> "YoY",
                       isPaidArg |-> FALSE,
                       result |-> YearMonthTaxOf(year, month, reservations, expenses,
                                                 settings.dependents)]
    /\ UNCHANGED <<taxIn, taxOut, tzOffset, reservations, expenses, settings, paidMonths>>
    /\ UNCHANGED syncVars
    /\ UNCHANGED probeVars

NextMonth == SummarizeMonth \/ SummarizeYearMonth

SpecMonth == InitMonth /\ [][NextMonth]_vars

(***************************************************************************)
(* Specification SpecPaid: the taxes reducers over bounded paid lists       *)
(***************************************************************************)
MaxPaid == 2
MaxTrail == 2

MonthKeys == {formatMonth(NewDate(2024, 11, 1)), formatMonth(NewDate(2025, 0, 1)),
              formatMonth(NewDate(2025, 1, 1))}

\* keep the last MaxTrail dispatches
Remember(trail, entry) ==
    IF Len(trail) < MaxTrail THEN Append(trail, entry) ELSE Append(Tail(trail), entry)

\* setPaidMonths may have stored any list read from the Taxes sheet
InitPaid ==
    /\ taxIn = [liquidIncome |-> 0, dependents |-> 0]
    /\ taxOut = NoResult
    /\ tzOffset = 0
    /\ reservations = <<>>
    /\ expenses = <<>>
    /\ settings = DefaultSettings
    /\ paidMonths \in SeqsUpTo(MonthKeys, MaxPaid)
    /\ summary = NoResult
    /\ SyncIdle
    /\ paidTrail = <<>>
    /\ SheetIdle
    /\ settingsCells = NoResult
    /\ StorageIdle
    /\ AsideIdle

\* dispatch(markMonthAsPaid(month))
DispatchMarkMonthAsPaid ==
    /\ \E m \in MonthKeys :
         /\ paidMonths' = markMonthAsPaid(paidMonths, m)
         /\ paidTrail' = Remember(paidTrail, [op |-> "paid", month |-> m,
                                              before |-> paidMonths,
                                              after |-> paidMonths'])
    /\ UNCHANGED <<taxIn, taxOut, tzOffset, reservations, expenses, settings, summary>>
    /\ UNCHANGED syncVars
    /\ UNCHANGED sheetVars
    /\ UNCHANGED cellVars
    /\ UNCHANGED storageVars
    /\ UNCHANGED asideVars

\* dispatch(markMonthAsUnpaid(month))
DispatchMarkMonthAsUnpaid ==
    /\ \E m \in MonthKeys :
         /\ paidMonths' = markMonthAsUnpaid(paidMonths, m)
         /\ paidTrail' = Remember(paidTrail, [op |-> "unpaid", month |-> m,
                                              before |-> paidMonths,
                                              after |-> paidMonths'])
    /\ UNCHANGED <<taxIn, taxOut, tzOffset, reservations, expenses, settings, summary>>
    /\ UNCHANGED syncVars
    /\ UNCHANGED sheetVars
    /\ UNCHANGED cellVars
    /\ UNCHANGED storageVars
    /\ UNCHANGED asideVars

NextPaid == DispatchMarkMonthAsPaid \/ DispatchMarkMonthAsUnpaid

SpecPaid == InitPaid /\ [][NextPaid]_vars

(***************************************************************************)
(* Specification SpecNotice: the tax notification of the dashboard over    *)
(* bounded collections, paid lists and dates                               *)
(***************************************************************************)
\* months.filter(month => month < currentMonth)
PastMonths(months, currentMonth) ==
    SelectSeq(months, LAMBDA month : StringLess(month, currentMonth))

\* getMostRecentUnpaidMonth, with the value of new Date() handed in
getMostRecentUnpaidMonth(availableMonths, paid, date) ==
    LET currentMonth == formatMonth(date)
        pastMonths == PastMonths(availableMonths, currentMonth)
        unpaidMonths == SelectSeq(pastMonths, LAMBDA month : ~Includes(paid, month))
    IN  IF unpaidMonths # <<>> THEN unpaidMonths[1] ELSE Null

\* the instants at which the dashboard may render: 00:00 UTC of these days
RenderDays == { DayFromCivil(2024, 12, 1), DayFromCivil(2025, 1, 1),
                DayFromCivil(2025, 2, 1), DayFromCivil(2025, 3, 1) }

InitNotice ==
    /\ taxIn = [liquidIncome |-> 0, dependents |-> 0]
    /\ taxOut = NoResult
    /\ tzOffset \in TzOffsets
    /\ settings = DefaultSettings
    /\ \E forms \in SeqsUpTo(ReservationForms, MaxItems) :
           reservations = [i \in 1..Len(forms) |-> MakeReservation(i, forms[i], settings)]
    /\ \E forms \in SeqsUpTo(ExpenseForms, MaxItems - 1) :
           expenses = [i \in 1..Len(forms) |-> MakeExpense(i, forms[i])]
    /\ paidMonths \in SeqsUpTo(MonthKeys, MaxPaid - 1)
    /\ summary = NoResult
    /\ SyncIdle
    /\ paidTrail = <<>>
    /\ SheetIdle
    /\ settingsCells = NoResult
    /\ StorageIdle
    /\ \E day \in RenderDays : today = day * 24
    /\ notice = NoResult
    /\ remoteTax = <<>>
    /\ unmarked = {}

\* the dashboard renders: availableMonths is getAllMonths(reservations, expenses)
DashboardRenders ==
    /\ notice = NoResult
    /\ notice' = [result |-> getMostRecentUnpaidMonth(getAllMonths(reservations, expenses),
                                                      paidMonths, today)]
    /\ UNCHANGED <<taxIn, taxOut, tzOffset, reservations, expenses, settings,
                   paidMonths, summary, today, remoteTax, unmarked>>
    /\ UNCHANGED syncVars
    /\ UNCHANGED paidVars
    /\ UNCHANGED sheetVars
    /\ UNCHANGED cellVars
    /\ UNCHANGED storageVars

NextNotice == DashboardRenders

SpecNotice == InitNotice /\ [][NextNotice]_vars

(***************************************************************************)
(* GoogleSheetsService: the rows written to and read from a range          *)
(*                                                                         *)
(* A date cell is entered as the text YYYY-MM-DD with USER_ENTERED, so the *)
(* sheet stores it as a date serial; a read with UNFORMATTED_VALUE returns *)
(* the serial.  Serials are counted here from 2024-11-01 (day 0 of the     *)
(* calendar window) instead of 1899-12-30.                                 *)
(***************************************************************************)
\* date.getFullYear()-..-date.getDate() joined as YYYY-MM-DD (local calendar)
toLocalDateString(date) ==
    NumberToString(getFullYear(date)) \o <<"-">>
        \o PadStart2(NumberToString(getMonth(date) + 1)) \o <<"-">>
        \o PadStart2(NumberToString(getDate(date)))

\* date.toISOString().split('T')[0]
toISODateString(date) ==
    NumberToString(getUTCFullYear(date)) \o <<"-">>
        \o PadStart2(NumberToString(getUTCMonth(date) + 1)) \o <<"-">>
        \o PadStart2(NumberToString(getUTCDate(date)))

\* the sheet parsing a YYYY-MM-DD text entered with USER_ENTERED into a serial
SerialOfText(str) ==
    DayFromCivil(StringToNumber(SubSeq(str, 1, 4)), StringToNumber(SubSeq(str, 6, 7)),
                 StringToNumber(SubSeq(str, 9, 10)))

\* excelSerialToDate: local midnight of the epoch plus serial days
excelSerialToDate(serial) == (0 - tzOffset) + serial * 24

\* parseDateValue for the number an UNFORMATTED_VALUE read returns
parseDateValue(value) == excelSerialToDate(value)

\* writeReservations: the values of the PUT body
reservationValues(rs) ==
    [i \in 1..Len(rs) |-> [date |-> toISODateString(rs[i].date),
                           nights |-> rs[i].nights,
                           total |-> rs[i].total,
                           ownerAmount |-> rs[i].ownerAmount,
                           adminFee |-> rs[i].adminFee]]

\* writeExpenses: the values of the PUT body
expenseValues(es) ==
    [i \in 1..Len(es) |-> [date |-> toISODateString(es[i].date),
                           amount |-> es[i].amount]]

\* the cells the sheet holds for a PUT body entered with USER_ENTERED
UserEntered(values) ==
    [i \in 1..Len(values) |-> [values[i] EXCEPT !.date = SerialOfText(values[i].date)]]

\* readReservations: rows.map((row, index) => ...)
readReservations(rows) ==
    [i \in 1..Len(rows) |-> [id |-> RowId(i - 1),
                             date |-> parseDateValue(rows[i].date),
                             nights |-> rows[i].nights,
                             total |-> rows[i].total,
                             ownerAmount |-> rows[i].ownerAmount,
                             adminFee |-> rows[i].adminFee]]

\* readExpenses: rows.map((row, index) => ...)
readExpenses(rows) ==
    [i \in 1..Len(rows) |-> [id |-> RowId(i - 1),
                             date |-> parseDateValue(rows[i].date),
                             amount |-> rows[i].amount]]

\* a PUT at A2 overwrites as many rows as it carries and leaves the rows below
PutAtA2(held, cells) == cells \o SubSeq(held, Len(cells) + 1, Len(held))

ClearRangeKeepsRows(held) == held

\* POST ...:clear on the whole range
ClearRange(held) == <<>>

(***************************************************************************)
(* Specification SpecSheet: full-collection writes and reads of the two    *)
(* data ranges, with the requests of concurrent calls interleaving         *)
(***************************************************************************)
MaxSheetItems == 2
MaxCalls == 2
MaxSheetOps == 4

WRITE_FNS == {"writeReservations", "writeExpenses"}

RangeOf(fn) == IF fn = "writeReservations" THEN "airbnb" ELSE "airbnb_expenses"

SheetReservationForms ==
    { [year |-> 2024, month |-> 12, day |-> 31, nights |-> 2, total |-> 50000],
      [year |-> 2025, month |-> 1,  day |-> 1,  nights |-> 3, total |-> 70000] }

SheetExpenseForms ==
    { [year |-> 2025, month |-> 1, day |-> 1, amount |-> 10000] }

\* the collections as a page or an earlier load left them; the sheet holds
\* what an earlier session wrote
InitSheet ==
    /\ taxIn = [liquidIncome |-> 0, dependents |-> 0]
    /\ taxOut = NoResult
    /\ tzOffset \in TzOffsets
    /\ settings = DefaultSettings
    /\ \E forms \in SeqsUpTo(SheetReservationForms, MaxSheetItems) :
           reservations = [i \in 1..Len(forms) |->
                              MakeReservation(RowId(i - 1), forms[i], settings)]
    /\ \E forms \in SeqsUpTo(SheetExpenseForms, MaxSheetItems - 1) :
           expenses = [i \in 1..Len(forms) |-> MakeExpense(RowId(i - 1), forms[i])]
    /\ paidMonths = <<>>
    /\ summary = NoResult
    /\ SyncIdle
    /\ paidTrail = <<>>
    /\ \E held \in {<<>>, reservations} :
           remote = [airbnb |-> UserEntered(reservationValues(held)),
                     airbnb_expenses |-> <<>>]
    /\ calls = <<>>
    /\ done = NoResult
    /\ trip = NoResult
    /\ sheetOps = 0
    /\ sheetLog = NoWrites
    /\ settingsCells = NoResult
    /\ StorageIdle
    /\ AsideIdle

SheetFrame ==
    /\ UNCHANGED <<taxIn, taxOut, tzOffset, settings, paidMonths, summary>>
    /\ UNCHANGED syncVars
    /\ UNCHANGED paidVars
    /\ UNCHANGED cellVars
    /\ UNCHANGED storageVars
    /\ UNCHANGED asideVars

SheetOp == sheetOps < MaxSheetOps /\ sheetOps' = sheetOps + 1

\* a call of the same function is in flight: the requests may interleave
Overlaps(fn) == \E i \in 1..Len(calls) : calls[i].fn = fn

\* writeReservations / writeExpenses up to the first await: the values are
\* taken from the collection handed in and the clear request is sent
WriteBegins(fn) ==
    /\ SheetOp
    /\ Len(calls) < MaxCalls
    /\ calls' = Append([i \in 1..Len(calls) |->
                            IF calls[i].fn = fn THEN [calls[i] EXCEPT !.alone = FALSE]
                            ELSE calls[i]],
                       [fn |-> fn, phase |-> "clear",
                        of |-> IF fn = "writeReservations" THEN reservations ELSE expenses,
                        values |-> IF fn = "writeReservations"
                                   THEN reservationValues(reservations)
                                   ELSE expenseValues(expenses),
                        alone |-> ~Overlaps(fn)])
    /\ sheetLog' = [sheetLog EXCEPT
                        ![fn] = [of |-> IF fn = "writeReservations" THEN reservations
                                        ELSE expenses,
                                 clean |-> IF @ = NoResult THEN TRUE ELSE @.clean]]
    /\ done' = NoResult
    /\ trip' = NoResult
    /\ UNCHANGED <<reservations, expenses, remote>>
    /\ SheetFrame

\* the clear request succeeds; an empty collection ends the call here
ClearDone(i) ==
    LET c == calls[i]
    IN  /\ c.phase = "clear"
        /\ remote' = [remote EXCEPT ![RangeOf(c.fn)] = ClearRange(@)]
        /\ IF Len(c.values) > 0
           THEN /\ calls' = [calls EXCEPT ![i].phase = "put"]
                /\ done' = NoResult
           ELSE /\ calls' = RemoveAt(calls, i)
                /\ done' = [fn |-> c.fn, of |-> c.of, values |-> c.values,
                            alone |-> c.alone, ok |-> TRUE]
        /\ trip' = NoResult
        /\ UNCHANGED <<reservations, expenses, sheetLog>>
        /\ SheetFrame
        /\ UNCHANGED sheetOps

\* the PUT request succeeds and the call returns
PutDone(i) ==
    LET c == calls[i]
    IN  /\ c.phase = "put"
        /\ remote' = [remote EXCEPT ![RangeOf(c.fn)] = PutAtA2(@, UserEntered(c.values))]
        /\ calls' = RemoveAt(calls, i)
        /\ done' = [fn |-> c.fn, of |-> c.of, values |-> c.values,
                    alone |-> c.alone, ok |-> TRUE]
        /\ trip' = NoResult
        /\ UNCHANGED <<reservations, expenses, sheetLog>>
        /\ SheetFrame
        /\ UNCHANGED sheetOps

\* apiRequest throws: the call ends with the range as the requests left it
RequestFails(i) ==
    LET c == calls[i]
    IN  /\ calls' = RemoveAt(calls, i)
        /\ done' = [fn |-> c.fn, of |-> c.of, values |-> c.values,
                    alone |-> c.alone, ok |-> FALSE]
        /\ trip' = NoResult
        /\ sheetLog' = [sheetLog EXCEPT ![c.fn] = [@ EXCEPT !.clean = FALSE]]
        /\ UNCHANGED <<reservations, expenses, remote>>
        /\ SheetFrame
        /\ UNCHANGED sheetOps

\* loadData: readReservations, then setReservations
ReadReservationsBack ==
    /\ SheetOp
    /\ reservations' = readReservations(remote.airbnb)
    /\ trip' = IF remote.airbnb = UserEntered(reservationValues(reservations))
               THEN [before |-> reservations, after |-> reservations']
               ELSE NoResult
    /\ done' = NoResult
    /\ UNCHANGED <<expenses, remote, calls, sheetLog>>
    /\ SheetFrame

\* loadData: readExpenses, then setExpenses
ReadExpensesBack ==
    /\ SheetOp
    /\ expenses' = readExpenses(remote.airbnb_expenses)
    /\ trip' = IF remote.airbnb_expenses = UserEntered(expenseValues(expenses))
               THEN [before |-> expenses, after |-> expenses']
               ELSE NoResult
    /\ done' = NoResult
    /\ UNCHANGED <<reservations, remote, calls, sheetLog>>
    /\ SheetFrame

\* a page deletes an item: reservationsSlice / expensesSlice deleteX
DeleteLocal ==
    /\ SheetOp
    /\ \/ /\ reservations # <<>>
          /\ \E i \in 1..Len(reservations) : reservations' = RemoveAt(reservations, i)
          /\ UNCHANGED expenses
       \/ /\ expenses # <<>>
          /\ \E i \in 1..Len(expenses) : expenses' = RemoveAt(expenses, i)
          /\ UNCHANGED reservations
    /\ done' = NoResult
    /\ trip' = NoResult
    /\ UNCHANGED <<remote, calls, sheetLog>>
    /\ SheetFrame

NextSheet ==
    \/ \E fn \in WRITE_FNS : WriteBegins(fn)
    \/ \E i \in 1..Len(calls) : ClearDone(i)
    \/ \E i \in 1..Len(calls) : PutDone(i)
    \/ \E i \in 1..Len(calls) : RequestFails(i)
    \/ ReadReservationsBack
    \/ ReadExpensesBack
    \/ DeleteLocal

SpecSheet == InitSheet /\ [][NextSheet]_vars

(***************************************************************************)
(* Specification SpecTaxSheet: the taxes range under loads, the Taxes page *)
(* and the tax-row writes of saveTaxData                                   *)
(*                                                                         *)
(* A month cell is entered as the text YYYY-MM with USER_ENTERED, which    *)
(* the sheet stores as the date serial of the first day of the month.      *)
(* The timing of the auto-save hooks is the subject of Spec; here a        *)
(* debounce timeout of a tax hook may fire after any change.               *)
(***************************************************************************)
\* the sheet parsing a YYYY-MM text entered with USER_ENTERED into a serial
SerialOfMonthText(str) ==
    DayFromCivil(StringToNumber(SubSeq(str, 1, 4)), StringToNumber(SubSeq(str, 6, 7)), 1)

\* the cells the sheet holds for the PUT body of writeTaxData
TaxCells(taxData) ==
    [i \in 1..Len(taxData) |-> [taxData[i] EXCEPT !.month = SerialOfMonthText(@)]]

\* writeTaxData: clear taxes!A2:G, then PUT the rows if there are any
writeTaxData(held, taxData) ==
    IF Len(taxData) > 0 THEN PutAtA2(ClearRange(held), TaxCells(taxData))
    ELSE ClearRange(held)

\* readPaidTaxMonths: the month keys of the rows whose is_paid is true
readPaidTaxMonths(rows) ==
    LET paidRows == SelectSeq(rows, LAMBDA row : row.isPaid)
    IN  [i \in 1..Len(paidRows) |-> formatMonth(excelSerialToDate(paidRows[i].month))]

\* the reservations an earlier session wrote, one per month at most
EarlierReservations ==
    { [i \in 1..Len(forms) |-> MakeReservation(RowId(i - 1), forms[i], DefaultSettings)] :
          forms \in { fs \in SeqsUpTo(SheetReservationForms, MaxSheetItems) :
                          /\ Len(fs) > 0
                          /\ \A i, j \in 1..Len(fs) : i # j => fs[i] # fs[j] } }

\* a freshly opened page; the sheet holds the reservations and the tax rows
\* an earlier session wrote, with some of the months marked paid
InitTaxSheet ==
    /\ taxIn = [liquidIncome |-> 0, dependents |-> 0]
    /\ taxOut = NoResult
    /\ tzOffset = -3
    /\ settings = DefaultSettings
    /\ reservations = <<>>
    /\ expenses = <<>>
    /\ paidMonths = <<>>
    /\ summary = NoResult
    /\ SyncIdle
    /\ paidTrail = <<>>
    /\ \E held \in EarlierReservations :
         /\ remote = [airbnb |-> UserEntered(reservationValues(held)),
                      airbnb_expenses |-> <<>>]
         /\ \E paid \in SeqsUpTo({getAllMonths(held, <<>>)[i] :
                                      i \in 1..Len(getAllMonths(held, <<>>))}, 1) :
                remoteTax = TaxCells(saveTaxDataRows(
                                SaveClosure("paidMonths", held, <<>>, DefaultSettings, paid)))
    /\ calls = <<>>
    /\ done = NoResult
    /\ trip = NoResult
    /\ sheetOps = 0
    /\ sheetLog = NoWrites
    /\ settingsCells = NoResult
    /\ StorageIdle
    /\ today = 0
    /\ notice = NoResult
    /\ unmarked = {}

TaxSheetFrame ==
    /\ UNCHANGED <<taxIn, taxOut, tzOffset, settings, summary, today, notice>>
    /\ UNCHANGED <<remote, calls, done, trip, sheetLog>>
    /\ UNCHANGED syncVars
    /\ UNCHANGED paidVars
    /\ UNCHANGED cellVars
    /\ UNCHANGED storageVars

\* loadData with every read succeeding
LoadCompletes ==
    /\ SheetOp
    /\ reservations' = readReservations(remote.airbnb)
    /\ expenses' = readExpenses(remote.airbnb_expenses)
    /\ paidMonths' = readPaidTaxMonths(remoteTax)
    /\ UNCHANGED <<remoteTax, unmarked>>
    /\ TaxSheetFrame

\* loadData with readPaidTaxMonths throwing: setPaidMonths is not reached
LoadFailsAtPaidMonths ==
    /\ SheetOp
    /\ reservations' = readReservations(remote.airbnb)
    /\ expenses' = readExpenses(remote.airbnb_expenses)
    /\ UNCHANGED <<paidMonths, remoteTax, unmarked>>
    /\ TaxSheetFrame

\* Taxes page: dispatch(markMonthAsPaid(month)) for a month with data
TaxMarkedPaid ==
    /\ SheetOp
    /\ \E i \in 1..Len(getAllMonths(reservations, expenses)) :
         LET month == getAllMonths(reservations, expenses)[i]
         IN  /\ ~Includes(paidMonths, month)
             /\ paidMonths' = markMonthAsPaid(paidMonths, month)
             /\ unmarked' = unmarked \ {month}
    /\ UNCHANGED <<reservations, expenses, remoteTax>>
    /\ TaxSheetFrame

\* Taxes page: dispatch(markMonthAsUnpaid(month))
TaxMarkedUnpaid ==
    /\ SheetOp
    /\ \E i \in 1..Len(paidMonths) :
         /\ Includes(getAllMonths(reservations, expenses), paidMonths[i])
         /\ paidMonths' = markMonthAsUnpaid(paidMonths, paidMonths[i])
         /\ unmarked' = unmarked \cup {paidMonths[i]}
    /\ UNCHANGED <<reservations, expenses, remoteTax>>
    /\ TaxSheetFrame

\* a page deletes a reservation: reservationsSlice deleteReservation
ReservationDeleted ==
    /\ SheetOp
    /\ \E i \in 1..Len(reservations) : reservations' = RemoveAt(reservations, i)
    /\ UNCHANGED <<expenses, paidMonths, remoteTax, unmarked>>
    /\ TaxSheetFrame

\* the debounce timeout of a tax hook fires: saveTaxData, then writeTaxData
\* if there are rows to write
TaxDataSaved ==
    LET c == SaveClosure("paidMonths", reservations, expenses, settings, paidMonths)
    IN  /\ SheetOp
        /\ remoteTax' = IF CallsService(c) THEN writeTaxData(remoteTax, saveTaxDataRows(c))
                        ELSE remoteTax
        /\ UNCHANGED <<reservations, expenses, paidMonths, unmarked>>
        /\ TaxSheetFrame

NextTaxSheet ==
    \/ LoadCompletes
    \/ LoadFailsAtPaidMonths
    \/ TaxMarkedPaid
    \/ TaxMarkedUnpaid
    \/ ReservationDeleted
    \/ TaxDataSaved

SpecTaxSheet == InitTaxSheet /\ [][NextTaxSheet]_vars

(***************************************************************************)
(* Specification SpecSettings: the settings form, the settings range of    *)
(* the sheet and the reservations created under the settings               *)
(*                                                                         *)
(* A split is held in hundredths (0.7 is 70), as the form shows it.         *)
(***************************************************************************)
MaxSplitItems == 2

\* a || b for numbers: 0 and NaN are falsy
JsOr(a, b) == IF a = 0 THEN b ELSE a

\* settingsSlice.reducers.updateSettings: { ...state.settings, ...payload }
updateSettings(current, payload) ==
    [k \in DOMAIN current |-> IF k \in DOMAIN payload THEN payload[k] ELSE current[k]]

\* writeSettings: the values of the PUT body, entered as numbers
settingsValues(st) ==
    [dependents |-> st.dependents, owner_split |-> st.ownerSplit,
     admin_split |-> st.adminSplit]

\* readSettings: the defaults, overridden by the rows found
readSettings(cells) ==
    IF cells = NoResult
    THEN [dependents |-> 0, ownerSplit |-> 70, adminSplit |-> 30]
    ELSE [dependents |-> JsOr(cells.dependents, 0),
          ownerSplit |-> JsOr(cells.owner_split, 70),
          adminSplit |-> JsOr(cells.admin_split, 30)]

\* what the user may type into the split inputs; typing one fills the other
\* with 100 minus it
SplitInputs == {-50, 0, 30, 70, 100, 150}

SplitForms ==
    [dependents : {0, 1}, ownerSplit : SplitInputs, adminSplit : SplitInputs]

\* the submit button is enabled and the number inputs (min 0, max 100) are valid
FormAccepted(form) ==
    /\ form.ownerSplit + form.adminSplit = 100
    /\ form.ownerSplit >= 0 /\ form.ownerSplit <= 100
    /\ form.adminSplit >= 0 /\ form.adminSplit <= 100

SplitReservationForms ==
    { [year |-> 2025, month |-> 1, day |-> 1, nights |-> 3, total |-> 70000] }

InitSettings ==
    /\ taxIn = [liquidIncome |-> 0, dependents |-> 0]
    /\ taxOut = NoResult
    /\ tzOffset = -3
    /\ settings = DefaultSettings
    /\ reservations = <<>>
    /\ expenses = <<>>
    /\ paidMonths = <<>>
    /\ summary = NoResult
    /\ SyncIdle
    /\ paidTrail = <<>>
    /\ SheetIdle
    /\ settingsCells = NoResult
    /\ StorageIdle
    /\ AsideIdle

SettingsFrame ==
    /\ UNCHANGED <<taxIn, taxOut, tzOffset, expenses, paidMonths, summary>>
    /\ UNCHANGED syncVars
    /\ UNCHANGED paidVars
    /\ UNCHANGED sheetVars
    /\ UNCHANGED storageVars
    /\ UNCHANGED asideVars

\* Settings.handleSubmit
SettingsSubmitted ==
    /\ \E form \in SplitForms :
         /\ FormAccepted(form)
         /\ settings' = updateSettings(settings, form)
    /\ UNCHANGED <<reservations, settingsCells>>
    /\ SettingsFrame

\* saveSettings: writeSettings puts the three rows
SettingsSaved ==
    /\ settingsCells' = settingsValues(settings)
    /\ UNCHANGED <<settings, reservations>>
    /\ SettingsFrame

\* loadData: readSettings, then setSettings
SettingsLoaded ==
    /\ settings' = readSettings(settingsCells)
    /\ UNCHANGED <<reservations, settingsCells>>
    /\ SettingsFrame

\* NewReservation.handleSubmit, create mode
ReservationCreated ==
    /\ Len(reservations) < MaxSplitItems
    /\ \E form \in SplitReservationForms :
           reservations' = Append(reservations,
                                  MakeReservation(Len(reservations), form, settings))
    /\ UNCHANGED <<settings, settingsCells>>
    /\ SettingsFrame

NextSettings ==
    \/ SettingsSubmitted
    \/ SettingsSaved
    \/ SettingsLoaded
    \/ ReservationCreated

SpecSettings == InitSettings /\ [][NextSettings]_vars

(***************************************************************************)
(* Specification SpecAuth: GoogleAuthProvider with localStorage and        *)
(* sessionStorage, across sign-ins, page loads and the passing of time     *)
(*                                                                         *)
(* Each action is a handler followed by the commit it causes, in which the *)
(* persist effect runs when isSignedIn, userEmail, accessToken or          *)
(* tokenExpiresAt changed.  A stored number is its decimal string; the     *)
(* state tokenExpiresAt is a number of milliseconds, with NoExpiry for     *)
(* null.                                                                   *)
(***************************************************************************)
MS_PER_SECOND == 1000
MaxSeconds == 3

ExpiresInSeconds == {1, 2}
IssuedToken == "tokenA"
Email == "user@example.com"
NoExpiry == 0

coordVars == <<sheetId, dataLoading, dataLoaded, svcToken, isLoadingData, timers,
               settleTimers, loads, writes, initPending, lastError, inputs, unsaved>>

\* localStorage.getItem('persistAuth') !== 'false'
shouldPersistAuth(item) == item # "false"

\* getStorage(): which storage the preference selects
getStorage(item) == IF shouldPersistAuth(item) THEN "local" ELSE "session"

isExpiredStrictlyAfter(expiresAt, t) ==
    expiresAt # Null /\ t > StringToNumber(expiresAt)

\* expiresAt && Date.now() >= parseInt(expiresAt)
isExpired(expiresAt, t) ==
    expiresAt # Null /\ t >= StringToNumber(expiresAt)

\* the entries the persist effect leaves in the selected storage
EntriesOf(signedIn, email, token, expires) ==
    [isSignedIn |-> IF signedIn THEN "true" ELSE Null,
     userEmail |-> email,
     accessToken |-> token,
     expiresAt |-> IF expires # NoExpiry THEN NumberToString(expires) ELSE Null]

AuthState == [isSignedIn |-> isSignedIn, userEmail |-> userEmail,
              accessToken |-> accessToken, tokenExpiresAt |-> tokenExpiresAt]

\* the commit: ls0 and ss0 are the storages as the handler left them
PersistEffect(ls0, ss0) ==
    LET changed == <<isSignedIn', userEmail', accessToken', tokenExpiresAt'>>
                       # <<isSignedIn, userEmail, accessToken, tokenExpiresAt>>
        entries == EntriesOf(isSignedIn', userEmail', accessToken', tokenExpiresAt')
        selected == getStorage(persistAuthItem')
    IN  /\ localStorage' = IF changed /\ selected = "local" THEN entries ELSE ls0
        /\ sessionStorage' = IF changed /\ selected = "session" THEN entries ELSE ss0

AuthFrame ==
    /\ UNCHANGED <<taxIn, taxOut, tzOffset, reservations, expenses, settings,
                   paidMonths, summary>>
    /\ UNCHANGED coordVars
    /\ UNCHANGED paidVars
    /\ UNCHANGED sheetVars
    /\ UNCHANGED cellVars
    /\ UNCHANGED asideVars

\* the first visit: nothing stored, the provider has mounted
InitAuth ==
    /\ taxIn = [liquidIncome |-> 0, dependents |-> 0]
    /\ taxOut = NoResult
    /\ tzOffset = -3
    /\ reservations = <<>>
    /\ expenses = <<>>
    /\ settings = DefaultSettings
    /\ paidMonths = <<>>
    /\ summary = NoResult
    /\ sheetId = Null
    /\ dataLoading = FALSE
    /\ dataLoaded = FALSE
    /\ svcToken = Null
    /\ isLoadingData = FALSE
    /\ timers = NoTimers
    /\ settleTimers = <<>>
    /\ loads = <<>>
    /\ writes = <<>>
    /\ initPending = FALSE
    /\ lastError = NoResult
    /\ inputs = 0
    /\ unsaved = {}
    /\ isSignedIn = FALSE
    /\ accessToken = Null
    /\ tokenExpiresAt = NoExpiry
    /\ sessionExpired = FALSE
    /\ signInStage = "none"
    /\ paidTrail = <<>>
    /\ SheetIdle
    /\ settingsCells = NoResult
    /\ StorageIdle
    /\ AsideIdle

\* the page is loaded again (reload: sessionStorage survives; reopen: the
\* browser was closed, sessionStorage is empty).  The state initialisers
\* read the selected storage, then the mount effect and the persist effect run
PageLoads(kind) ==
    LET ss0 == IF kind = "reopen" THEN NoEntries ELSE sessionStorage
        selected == getStorage(persistAuthItem)
        stored == IF selected = "local" THEN localStorage ELSE ss0
        expired == isExpired(stored.expiresAt, now)
        wasSignedIn == stored.isSignedIn = "true"
    IN  /\ persistAuth' = shouldPersistAuth(persistAuthItem)
        /\ isSignedIn' = (~expired /\ wasSignedIn)
        /\ userEmail' = IF expired THEN Null ELSE stored.userEmail
        /\ accessToken' = IF expired THEN Null ELSE stored.accessToken
        /\ tokenExpiresAt' = IF expired \/ stored.expiresAt = Null THEN NoExpiry
                             ELSE StringToNumber(stored.expiresAt)
        /\ authError' = Null
        /\ sessionExpired' = (expired /\ wasSignedIn)
        /\ signInStage' = "none"
        /\ attempt' = NoResult
        /\ localStorage' = IF selected = "local"
                           THEN EntriesOf(isSignedIn', userEmail', accessToken',
                                          tokenExpiresAt')
                           ELSE localStorage
        /\ sessionStorage' = IF selected = "session"
                             THEN EntriesOf(isSignedIn', userEmail', accessToken',
                                            tokenExpiresAt')
                             ELSE ss0
        /\ authEvent' = [kind |-> "mount", expiresAt |-> stored.expiresAt,
                         flag |-> stored.isSignedIn, at |-> now]
        /\ UNCHANGED <<persistAuthItem, now>>
        /\ AuthFrame

\* signIn(): the popup opens
SignInStarts ==
    /\ ~isSignedIn
    /\ signInStage = "none"
    /\ signInStage' = "popup"
    /\ attempt' = AuthState
    /\ authEvent' = [kind |-> "signIn"]
    /\ UNCHANGED <<isSignedIn, userEmail, accessToken, tokenExpiresAt, authError,
                   sessionExpired, persistAuth, persistAuthItem, localStorage,
                   sessionStorage, now>>
    /\ AuthFrame

\* login.onSuccess up to the await of the userinfo request
TokenArrives(expiresIn) ==
    /\ signInStage = "popup"
    /\ signInStage' = "userinfo"
    /\ accessToken' = IssuedToken
    /\ tokenExpiresAt' = now + expiresIn * MS_PER_SECOND
    /\ UNCHANGED <<isSignedIn, userEmail, authError, sessionExpired, persistAuth,
                   persistAuthItem, now, attempt>>
    /\ PersistEffect(localStorage, sessionStorage)
    /\ authEvent' = [kind |-> "token", at |-> now, expiresIn |-> expiresIn]
    /\ AuthFrame

\* login.onSuccess after the userinfo response
UserInfoArrives ==
    /\ signInStage = "userinfo"
    /\ signInStage' = "none"
    /\ userEmail' = Email
    /\ isSignedIn' = TRUE
    /\ authError' = Null
    /\ UNCHANGED <<accessToken, tokenExpiresAt, sessionExpired, persistAuth,
                   persistAuthItem, now>>
    /\ PersistEffect(localStorage, sessionStorage)
    /\ attempt' = NoResult
    /\ authEvent' = [kind |-> "signedIn"]
    /\ AuthFrame

\* the catch block of login.onSuccess: the userinfo request failed
UserInfoFails ==
    /\ signInStage = "userinfo"
    /\ signInStage' = "none"
    /\ authError' = "Failed to fetch user info"
    /\ isSignedIn' = FALSE
    /\ UNCHANGED <<userEmail, accessToken, tokenExpiresAt, sessionExpired,
                   persistAuth, persistAuthItem, now, attempt>>
    /\ PersistEffect(localStorage, sessionStorage)
    /\ authEvent' = [kind |-> "signInFailed", stage |-> "userinfo"]
    /\ AuthFrame

\* login.onError: the identity provider rejected the sign-in
LoginRejected ==
    /\ signInStage = "popup"
    /\ signInStage' = "none"
    /\ authError' = "Failed to sign in with Google. Please try again."
    /\ isSignedIn' = FALSE
    /\ UNCHANGED <<userEmail, accessToken, tokenExpiresAt, sessionExpired,
                   persistAuth, persistAuthItem, now, attempt>>
    /\ PersistEffect(localStorage, sessionStorage)
    /\ authEvent' = [kind |-> "signInFailed", stage |-> "popup"]
    /\ AuthFrame

\* signOut('expired'), called by handleApiError
SignsOutExpired ==
    /\ isSignedIn
    /\ isSignedIn' = FALSE
    /\ userEmail' = Null
    /\ accessToken' = Null
    /\ tokenExpiresAt' = NoExpiry
    /\ authError' = Null
    /\ sessionExpired' = TRUE
    /\ UNCHANGED <<signInStage, persistAuth, persistAuthItem, now, attempt>>
    /\ PersistEffect(NoEntries, NoEntries)
    /\ authEvent' = [kind |-> "signOut"]
    /\ AuthFrame

\* setPersistAuth(!persistAuth), from the switch of the Settings page
PersistAuthToggled ==
    LET persist == ~persistAuth
        item == IF persist THEN "true" ELSE "false"
        \* getStorage() after the preference was stored: the new storage
        current == IF getStorage(item) = "local" THEN localStorage ELSE sessionStorage
        expiresAt == current.expiresAt
        moved == IF isSignedIn
                 THEN [current EXCEPT !.isSignedIn = "true",
                                      !.userEmail = userEmail,
                                      !.accessToken = accessToken,
                                      !.expiresAt = IF expiresAt # Null THEN expiresAt
                                                    ELSE @]
                 ELSE current
    IN  /\ isSignedIn
        /\ persistAuthItem' = item
        /\ persistAuth' = persist
        /\ UNCHANGED <<isSignedIn, userEmail, accessToken, tokenExpiresAt, authError,
                       sessionExpired, signInStage, now, attempt>>
        /\ PersistEffect(IF persist THEN moved ELSE NoEntries,
                         IF persist THEN NoEntries ELSE moved)
        /\ authEvent' = [kind |-> "toggle", persist |-> persist,
                         before |-> IF persist THEN sessionStorage ELSE localStorage]
        /\ AuthFrame

\* clearSessionExpired(), from the notice
NoticeDismissed ==
    /\ sessionExpired
    /\ sessionExpired' = FALSE
    /\ UNCHANGED <<isSignedIn, userEmail, accessToken, tokenExpiresAt, authError,
                   signInStage, persistAuth, persistAuthItem, localStorage,
                   sessionStorage, now, attempt>>
    /\ authEvent' = [kind |-> "dismiss"]
    /\ AuthFrame

TimePasses ==
    /\ now < MaxSeconds * MS_PER_SECOND
    /\ now' = now + MS_PER_SECOND
    /\ UNCHANGED <<isSignedIn, userEmail, accessToken, tokenExpiresAt, authError,
                   sessionExpired, signInStage, persistAuth, persistAuthItem,
                   localStorage, sessionStorage, attempt>>
    /\ authEvent' = [kind |-> "time"]
    /\ AuthFrame

NextAuth ==
    \/ \E kind \in {"reload", "reopen"} : PageLoads(kind)
    \/ SignInStarts
    \/ \E expiresIn \in ExpiresInSeconds : TokenArrives(expiresIn)
    \/ UserInfoArrives
    \/ UserInfoFails
    \/ LoginRejected
    \/ SignsOutExpired
    \/ PersistAuthToggled
    \/ NoticeDismissed
    \/ TimePasses

SpecAuth == InitAuth /\ [][NextAuth]_vars

(***************************************************************************)
(* Specification Spec: the data sync coordinator                           *)
(*                                                                         *)
(* Every action is one handler together with the React commit it causes:   *)
(* the effects of useDataSync re-run inside the action, in declaration     *)
(* order (service token, load, then the five auto-save hooks).             *)
(* state.app.authInitialized is taken as raised: the pages are reachable.  *)
(***************************************************************************)
SheetIds == {"sheetA", "sheetB"}
Token == "token"

SyncReservationForms ==
    { [year |-> 2025, month |-> 1, day |-> 1,  nights |-> 5, total |-> 700000] }

SyncExpenseForms ==
    { [year |-> 2025, month |-> 1, day |-> 1, amount |-> 10000] }

SettingsForms ==
    { DefaultSettings, [dependents |-> 1, ownerSplit |-> 70, adminSplit |-> 30] }

\* ids: crypto.randomUUID() for a new item, `reservation-${index}` for a row
UuidOf(items) ==
    [kind |-> "uuid",
     n |-> CHOOSE k \in 0..Len(items) :
               \A i \in 1..Len(items) : items[i].id # [kind |-> "uuid", n |-> k]]

\* what a read of the remote store may return
ReadableSettings == {DefaultSettings}

ReadableReservations ==
    { [i \in 1..Len(forms) |-> MakeReservation(RowId(i - 1), forms[i], DefaultSettings)] :
          forms \in SeqsUpTo(SyncReservationForms, MaxSyncItems) }

ReadableExpenses == {<<>>}

ReadablePaidMonths == {<<>>}

Init ==
    /\ taxIn = [liquidIncome |-> 0, dependents |-> 0]
    /\ taxOut = NoResult
    /\ summary = NoResult
    /\ tzOffset = -3
    /\ reservations = <<>>
    /\ expenses = <<>>
    /\ settings = DefaultSettings
    /\ paidMonths = <<>>
    /\ sheetId \in {Null} \cup SheetIds
    /\ \E session \in {"none", "restored", "expired"} :
         /\ isSignedIn = (session = "restored")
         /\ accessToken = IF session = "restored" THEN Token ELSE Null
         /\ tokenExpiresAt = IF session = "restored" THEN "set" ELSE Null
         /\ sessionExpired = (session = "expired")
    /\ signInStage = "none"
    /\ svcToken = accessToken
    \* the mount commit starts the load when a session and a sheet are there
    /\ isLoadingData = (isSignedIn /\ sheetId # Null)
    /\ dataLoading = isLoadingData
    /\ dataLoaded = FALSE
    /\ loads = IF isLoadingData THEN <<[step |-> "settings", sent |-> TRUE]>> ELSE <<>>
    /\ timers = NoTimers
    /\ settleTimers = <<>>
    /\ writes = <<>>
    /\ initPending = FALSE
    /\ lastError = NoResult
    /\ inputs = 0
    /\ unsaved = {}
    /\ ProbeIdle

\* no timeout is due: a due timeout runs before the user's next input
NothingDue ==
    /\ \A h \in HOOKS : \A i \in 1..Len(timers[h]) : timers[h][i].left > 0
    /\ \A i \in 1..Len(settleTimers) : settleTimers[i] > 0

\* App.tsx: the pages are shown (no loading screen, no onboarding)
PagesShown == isSignedIn /\ sheetId # Null /\ ~(~dataLoaded /\ dataLoading)

UIReady == PagesShown /\ NothingDue

\* the load effect: its dependencies changed and its guard passes
LoadEffectRuns ==
    /\ isSignedIn' # isSignedIn \/ sheetId' # sheetId \/ accessToken' # accessToken
    /\ isSignedIn' /\ sheetId' # Null /\ accessToken' # Null

\* did the dependency list of an auto-save hook change in this commit?
\* `changed` names the store slices that got a new identity, `authRender`
\* tells that GoogleAuthProvider rendered (signOut, hence handleApiError and
\* every save callback, is then a new function)
DepsChanged(h, changed, authRender) ==
    \/ isSignedIn' # isSignedIn
    \/ sheetId' # sheetId
    \/ authRender
    \/ CASE h = "reservations" -> "reservations" \in changed
         [] h = "expenses"     -> "expenses" \in changed
         [] h = "settings"     -> "settings" \in changed
         [] h = "paidMonths"   -> \/ "paidMonths" \in changed
                                  \/ "reservations" \in changed
                                  \/ "expenses" \in changed
                                  \/ settings'.dependents # settings.dependents
         [] OTHER              -> TRUE   \* taxDependencies is a new array each render

\* one run of the useDebouncedAutoSave effect of hook h.  The timeout it sets
\* remembers two observations:
\*   paid (tax hooks): a change of the paid set armed it, or armed the
\*        pending timeout it replaces;
\*   late (collection hooks): it replaces a timeout that had already been
\*        running for a while, and its collection did not change
Rearm(h, changed, loading) ==
    LET old == timers[h]
        paid == /\ h \notin COLLECTIONS
                /\ "paidMonths" \in changed \/ (old # <<>> /\ old[Len(old)].paid)
        late == /\ h \in COLLECTIONS
                /\ h \notin changed
                /\ old # <<>>
                /\ old[Len(old)].late \/ old[Len(old)].left < DebounceTicks
    IN  cleanupAutoSave(old)
            \o (IF autoSaveSkips(isSignedIn', sheetId', loading) THEN <<>>
                ELSE <<[left |-> DebounceTicks,
                        save |-> SaveClosure(h, reservations', expenses', settings',
                                             paidMonths'),
                        paid |-> paid,
                        late |-> late]>>)

\* the commit after a handler: svc0, flag0, loading0, loaded0 and loads0 are
\* what the handler itself left in the service token, the read-lock flag,
\* state.app and the list of running loads
Commit(changed, authRender, svc0, flag0, loading0, loaded0, loads0) ==
    LET svc1  == IF accessToken' # accessToken /\ accessToken' # Null
                 THEN accessToken' ELSE svc0
        flag1 == LoadEffectRuns \/ flag0
    IN  /\ LoadEffectRuns => Len(loads0) < MaxLoads
        /\ svcToken' = svc1
        /\ isLoadingData' = flag1
        /\ dataLoading' = (LoadEffectRuns \/ loading0)
        /\ dataLoaded' = (~LoadEffectRuns /\ loaded0)
        /\ loads' = IF LoadEffectRuns
                    THEN Append(loads0, [step |-> "settings", sent |-> svc1 # Null])
                    ELSE loads0
        /\ timers' = [h \in HOOKS |->
                         IF DepsChanged(h, changed, authRender)
                         THEN Rearm(h, changed, flag1) ELSE timers[h]]

\* the inputs of the environment are counted: what the user does, and the
\* requests that fail
UserInput == inputs < MaxInputs /\ inputs' = inputs + 1

NoInput == UNCHANGED inputs

Answer(outcome) ==
    IF outcome = "ok" THEN NoInput ELSE UserInput

\* a commit that follows a store change made by a page
PageCommit(changed) ==
    /\ UserInput
    /\ UNCHANGED authVars
    /\ Commit(changed, FALSE, svcToken, isLoadingData, dataLoading, dataLoaded, loads)
    /\ UNCHANGED <<settleTimers, writes, initPending, tzOffset>>
    /\ UNCHANGED pureVars
    /\ unsaved' = unsaved \cup (changed \cap COLLECTIONS)

\* ---- reservations pages
AddReservation ==
    /\ UIReady
    /\ Len(reservations) < MaxSyncItems
    /\ \E form \in SyncReservationForms :
           reservations' = Append(reservations,
                                  MakeReservation(UuidOf(reservations), form, settings))
    /\ UNCHANGED <<expenses, settings, paidMonths, sheetId>>
    /\ PageCommit({"reservations"})
    /\ lastError' = NoResult

UpdateReservation ==
    /\ UIReady
    /\ \E i \in 1..Len(reservations), form \in SyncReservationForms :
           reservations' = [reservations EXCEPT
                               ![i] = MakeReservation(reservations[i].id, form, settings)]
    /\ UNCHANGED <<expenses, settings, paidMonths, sheetId>>
    /\ PageCommit({"reservations"})
    /\ lastError' = NoResult

DeleteReservation ==
    /\ UIReady
    /\ \E i \in 1..Len(reservations) : reservations' = RemoveAt(reservations, i)
    /\ UNCHANGED <<expenses, settings, paidMonths, sheetId>>
    /\ PageCommit({"reservations"})
    /\ lastError' = NoResult

\* ---- expenses pages
AddExpense ==
    /\ UIReady
    /\ Len(expenses) < MaxSyncItems
    /\ \E form \in SyncExpenseForms :
           expenses' = Append(expenses, MakeExpense(UuidOf(expenses), form))
    /\ UNCHANGED <<reservations, settings, paidMonths, sheetId>>
    /\ PageCommit({"expenses"})
    /\ lastError' = NoResult

DeleteExpense ==
    /\ UIReady
    /\ \E i \in 1..Len(expenses) : expenses' = RemoveAt(expenses, i)
    /\ UNCHANGED <<reservations, settings, paidMonths, sheetId>>
    /\ PageCommit({"expenses"})
    /\ lastError' = NoResult

\* ---- settings page: handleSubmit
SubmitSettingsResetsPaid ==
    /\ UIReady
    /\ \E form \in SettingsForms, sheet \in SheetIds :
         /\ sheetId' = sheet
         /\ settings' = form
    /\ UNCHANGED <<reservations, expenses>>
    /\ paidMonths' = <<>>
    /\ PageCommit({"settings"})
    /\ lastError' = NoResult

SubmitSettings ==
    /\ UIReady
    /\ \E form \in SettingsForms, sheet \in SheetIds :
         /\ sheetId' = sheet
         /\ settings' = form
    /\ UNCHANGED <<reservations, expenses, paidMonths>>
    /\ PageCommit({"settings"})
    /\ lastError' = NoResult

\* ---- taxes page
MarkMonthAsPaid ==
    /\ UIReady
    /\ \E i \in 1..Len(getAllMonths(reservations, expenses)) :
         LET month == getAllMonths(reservations, expenses)[i]
         IN  /\ ~Includes(paidMonths, month)
             /\ paidMonths' = Append(paidMonths, month)
    /\ UNCHANGED <<reservations, expenses, settings, sheetId>>
    /\ PageCommit({"paidMonths"})
    /\ lastError' = NoResult

MarkMonthAsUnpaid ==
    /\ UIReady
    /\ \E i \in 1..Len(paidMonths) :
         /\ Includes(getAllMonths(reservations, expenses), paidMonths[i])
         /\ paidMonths' = RemoveAt(paidMonths, i)
    /\ UNCHANGED <<reservations, expenses, settings, sheetId>>
    /\ PageCommit({"paidMonths"})
    /\ lastError' = NoResult

UpdateExpense ==
    /\ UIReady
    /\ \E i \in 1..Len(expenses), form \in SyncExpenseForms :
           expenses' = [expenses EXCEPT ![i] = MakeExpense(expenses[i].id, form)]
    /\ UNCHANGED <<reservations, settings, paidMonths, sheetId>>
    /\ PageCommit({"expenses"})
    /\ lastError' = NoResult

\* ---- time
Tick ==
    /\ NothingDue
    /\ NoInput
    /\ timers' = [h \in HOOKS |->
                     [i \in 1..Len(timers[h]) |->
                         [timers[h][i] EXCEPT !.left = @ - 1]]]
    /\ settleTimers' = [i \in 1..Len(settleTimers) |-> settleTimers[i] - 1]
    /\ lastError' = NoResult
    /\ UNCHANGED <<sheetId, dataLoading, dataLoaded, svcToken, isLoadingData, loads,
                   writes, initPending, tzOffset>>
    /\ UNCHANGED authVars
    /\ UNCHANGED dataVars
    /\ UNCHANGED pureVars
    /\ UNCHANGED unsaved

\* ---- a debounce timeout fires: saveCallback()
FireTimer(h) ==
    \E i \in 1..Len(timers[h]) :
        LET c == timers[h][i].save
            sends == CallsService(c) /\ svcToken # Null
        IN  /\ timers[h][i].left = 0
            /\ NoInput
            /\ sends => Len(writes) < MaxInflight
            /\ timers' = [timers EXCEPT ![h] = RemoveAt(@, i)]
            /\ writes' = IF sends
                         THEN Append(writes,
                                     [fn |-> c.fn, phase |-> FirstPhase(c.fn),
                                      rows |-> RowsOf(c),
                                      \* observed when the write was dispatched
                                      locked |-> isLoadingData,
                                      final |-> c = SaveClosure(h, reservations, expenses,
                                                                settings, paidMonths),
                                      late |-> timers[h][i].late,
                                      paid |-> timers[h][i].paid])
                         ELSE writes
            /\ lastError' = NoResult
            /\ UNCHANGED <<sheetId, dataLoading, dataLoaded, svcToken, isLoadingData,
                           loads, settleTimers, initPending, tzOffset>>
            /\ UNCHANGED authVars
            /\ UNCHANGED dataVars
            /\ UNCHANGED pureVars
            \* the callback hands the collection as it is now to the service
            /\ unsaved' = IF c = SaveClosure(h, reservations, expenses, settings, paidMonths)
                          THEN unsaved \ {h} ELSE unsaved

\* ---- a timeout that is dropped without lowering the flag
SettleFireKeepsFlag ==
    /\ \E i \in 1..Len(settleTimers) :
         /\ settleTimers[i] = 0
         /\ settleTimers' = RemoveAt(settleTimers, i)
    /\ isLoadingData' = isLoadingData
    /\ lastError' = NoResult
    /\ NoInput
    /\ UNCHANGED <<sheetId, dataLoading, dataLoaded, svcToken, timers, loads, writes,
                   initPending, tzOffset>>
    /\ UNCHANGED authVars
    /\ UNCHANGED dataVars
    /\ UNCHANGED pureVars
    /\ UNCHANGED unsaved

\* ---- the timeout of loadData's finally block fires
SettleFire ==
    /\ \E i \in 1..Len(settleTimers) :
         /\ settleTimers[i] = 0
         /\ settleTimers' = RemoveAt(settleTimers, i)
    /\ isLoadingData' = FALSE
    /\ lastError' = NoResult
    /\ NoInput
    /\ UNCHANGED <<sheetId, dataLoading, dataLoaded, svcToken, timers, loads, writes,
                   initPending, tzOffset>>
    /\ UNCHANGED authVars
    /\ UNCHANGED dataVars
    /\ UNCHANGED pureVars
    /\ UNCHANGED unsaved

\* ---- GoogleAuthProvider.signOut('expired'), called by handleApiError
SignOutExpired ==
    /\ isSignedIn' = FALSE
    /\ accessToken' = Null
    /\ tokenExpiresAt' = Null
    /\ sessionExpired' = TRUE
    /\ UNCHANGED signInStage

AuthStateChanges ==
    isSignedIn \/ accessToken # Null \/ tokenExpiresAt # Null \/ ~sessionExpired

\* a commit that happens only when some rendered state changed
CommitIf(rendered, changed, authRender, svc0, flag0, loading0, loaded0, loads0) ==
    IF rendered
    THEN Commit(changed, authRender, svc0, flag0, loading0, loaded0, loads0)
    ELSE /\ svcToken' = svc0
         /\ isLoadingData' = flag0
         /\ dataLoading' = loading0
         /\ dataLoaded' = loaded0
         /\ loads' = loads0
         /\ UNCHANGED timers

\* the catch block of loadData and of the save callbacks: the service has
\* dropped its token on a 401, handleApiError may sign the user out
CatchApiError(outcome, loaded0, loads0) ==
    LET code == IF outcome = "expired" THEN "TOKEN_EXPIRED" ELSE "none"
        svc0 == IF outcome = "expired" THEN Null ELSE svcToken
    IN  IF handleApiError(code)
        THEN /\ SignOutExpired
             /\ CommitIf(AuthStateChanges \/ loaded0 # dataLoaded, {}, AuthStateChanges,
                         svc0, isLoadingData, dataLoading, loaded0, loads0)
        ELSE /\ UNCHANGED authVars
             /\ CommitIf(loaded0 # dataLoaded, {}, FALSE,
                         svc0, isLoadingData, dataLoading, loaded0, loads0)

Outcomes == {"ok", "expired", "error"}

\* ---- the response to a request of a write arrives
WriteResponse(i, outcome) ==
    LET w == writes[i]
        more == w.phase = "clear" /\ Len(w.rows) > 0 /\ svcToken # Null
    IN  /\ Answer(outcome)
        /\ UNCHANGED <<sheetId, settleTimers, initPending,
                       tzOffset>>
        /\ UNCHANGED dataVars
        /\ UNCHANGED pureVars
        /\ UNCHANGED unsaved
        /\ lastError' = IF outcome = "ok" THEN NoResult
                        ELSE [kind |-> "write", outcome |-> outcome,
                              pendingBefore |-> Len(loads) + Len(writes)]
        /\ IF outcome = "ok"
           THEN /\ writes' = IF more THEN [writes EXCEPT ![i].phase = "put"]
                             ELSE RemoveAt(writes, i)
                /\ UNCHANGED authVars
                /\ UNCHANGED <<svcToken, dataLoading, dataLoaded, isLoadingData, loads,
                               timers>>
           ELSE /\ writes' = RemoveAt(writes, i)
                /\ CatchApiError(outcome, dataLoaded, loads)

\* an order that leaves the expenses out
NextStepSkipsExpenses(step) ==
    CASE step = "settings" -> "reservations"
      [] OTHER             -> "paidMonths"

\* ---- the response to a read of loadData arrives
NextStep(step) ==
    CASE step = "settings"     -> "reservations"
      [] step = "reservations" -> "expenses"
      [] OTHER                 -> "paidMonths"

ReadOk(i) ==
    LET l == loads[i]
        onward == [loads EXCEPT ![i] = [step |-> NextStep(l.step),
                                        sent |-> svcToken # Null]]
    IN  /\ l.sent
        /\ NoInput
        /\ UNCHANGED authVars
        /\ UNCHANGED <<sheetId, writes, initPending, tzOffset>>
        /\ UNCHANGED pureVars
        \* what a page had changed in the collection read is replaced
        /\ unsaved' = unsaved \ {l.step}
        /\ lastError' = NoResult
        /\ CASE l.step = "settings" ->
                  /\ settings' \in ReadableSettings
                  /\ UNCHANGED <<reservations, expenses, paidMonths, settleTimers>>
                  /\ Commit({"settings"}, FALSE, svcToken, isLoadingData, dataLoading,
                            dataLoaded, onward)
             [] l.step = "reservations" ->
                  /\ reservations' \in ReadableReservations
                  /\ UNCHANGED <<settings, expenses, paidMonths, settleTimers>>
                  /\ Commit({"reservations"}, FALSE, svcToken, isLoadingData, dataLoading,
                            dataLoaded, onward)
             [] l.step = "expenses" ->
                  /\ expenses' \in ReadableExpenses
                  /\ UNCHANGED <<settings, reservations, paidMonths, settleTimers>>
                  /\ Commit({"expenses"}, FALSE, svcToken, isLoadingData, dataLoading,
                            dataLoaded, onward)
             [] OTHER ->
                  \* setPaidMonths, setDataLoaded(true), then the finally block
                  /\ paidMonths' \in ReadablePaidMonths
                  /\ UNCHANGED <<settings, reservations, expenses>>
                  /\ settleTimers' = Append(settleTimers, SettleTicks)
                  /\ Commit({"paidMonths"}, FALSE, svcToken, isLoadingData, FALSE,
                            TRUE, RemoveAt(loads, i))

\* the catch block: handleApiError, setDataLoaded(false), then the finally block
ReadFails(i, outcome) ==
    LET l == loads[i]
    IN  /\ outcome # "ok"
        /\ ~l.sent => outcome = "error"
        \* apiRequest throws 'No access token' by itself: no answer is awaited
        /\ IF l.sent THEN Answer(outcome) ELSE NoInput
        /\ UNCHANGED <<sheetId, writes, initPending,
                       tzOffset>>
        /\ UNCHANGED dataVars
        /\ UNCHANGED pureVars
        /\ UNCHANGED unsaved
        /\ lastError' = [kind |-> "read", outcome |-> outcome,
                         pendingBefore |-> Len(loads) + Len(writes)]
        /\ settleTimers' = Append(settleTimers, SettleTicks)
        /\ CatchApiError(outcome, FALSE, RemoveAt(loads, i))

\* ---- the login flow of GoogleAuthProvider
SignInClick ==
    /\ NothingDue
    /\ UserInput
    /\ ~isSignedIn
    /\ signInStage = "none"
    /\ signInStage' = "popup"
    /\ lastError' = NoResult
    /\ UNCHANGED <<isSignedIn, accessToken, tokenExpiresAt, sessionExpired>>
    /\ UNCHANGED <<sheetId, dataLoading, dataLoaded, svcToken, isLoadingData, timers,
                   settleTimers, loads, writes, initPending,
                   tzOffset>>
    /\ UNCHANGED dataVars
    /\ UNCHANGED pureVars
    /\ UNCHANGED unsaved

AuthCommit ==
    /\ UNCHANGED <<sheetId, settleTimers, writes, initPending,
                   tzOffset>>
    /\ UNCHANGED dataVars
    /\ UNCHANGED pureVars
    /\ UNCHANGED unsaved
    /\ Commit({}, TRUE, svcToken, isLoadingData, dataLoading, dataLoaded, loads)
    /\ lastError' = NoResult

\* onSuccess up to the await of the userinfo request
LoginSuccess ==
    /\ signInStage = "popup"
    /\ NoInput
    /\ signInStage' = "userinfo"
    /\ accessToken' = Token
    /\ tokenExpiresAt' = "set"
    /\ UNCHANGED <<isSignedIn, sessionExpired>>
    /\ AuthCommit

\* onSuccess after the userinfo response
UserInfoOk ==
    /\ signInStage = "userinfo"
    /\ NoInput
    /\ signInStage' = "none"
    /\ isSignedIn' = TRUE
    /\ UNCHANGED <<accessToken, tokenExpiresAt, sessionExpired>>
    /\ AuthCommit

\* the catch block of onSuccess, and onError
LoginFails ==
    /\ signInStage \in {"popup", "userinfo"}
    /\ Answer("error")
    /\ signInStage' = "none"
    /\ isSignedIn' = FALSE
    /\ UNCHANGED <<accessToken, tokenExpiresAt, sessionExpired>>
    /\ AuthCommit

\* Settings page: the "stay signed in" switch.  setPersistAuth moves the
\* stored session between the two storages and sets the provider's
\* persistAuth state: the provider renders
TogglePersistAuth ==
    /\ UIReady
    /\ UserInput
    /\ UNCHANGED authVars
    /\ AuthCommit

\* App: the session-expired notice is dismissed
ClearSessionExpired ==
    /\ NothingDue
    /\ UserInput
    /\ sessionExpired
    /\ ~(isSignedIn /\ sheetId # Null /\ ~dataLoaded /\ dataLoading)
    /\ sessionExpired' = FALSE
    /\ UNCHANGED <<isSignedIn, accessToken, tokenExpiresAt, signInStage>>
    /\ AuthCommit

\* ---- Onboarding.handleSheetSetup up to the await of initializeSheets
SheetSetup ==
    /\ NothingDue
    /\ UserInput
    /\ isSignedIn
    /\ sheetId = Null
    /\ ~initPending
    /\ sheetId' \in SheetIds
    /\ initPending' = TRUE
    /\ UNCHANGED authVars
    /\ UNCHANGED dataVars
    /\ Commit({}, FALSE, svcToken, isLoadingData, dataLoading, dataLoaded, loads)
    /\ lastError' = NoResult
    /\ UNCHANGED <<settleTimers, writes, tzOffset>>
    /\ UNCHANGED pureVars
    /\ UNCHANGED unsaved

\* initializeSheets settles: it went through (navigate('/') renders App),
\* or a request of it failed; a 401 makes the service drop its token
SheetSetupSettles(outcome) ==
    /\ initPending
    /\ Answer(outcome)
    /\ initPending' = FALSE
    /\ UNCHANGED authVars
    /\ UNCHANGED dataVars
    /\ UNCHANGED sheetId
    /\ CommitIf(outcome = "ok", {}, FALSE,
                IF outcome = "expired" THEN Null ELSE svcToken,
                isLoadingData, dataLoading, dataLoaded, loads)
    /\ lastError' = NoResult
    /\ UNCHANGED <<settleTimers, writes, tzOffset>>
    /\ UNCHANGED pureVars
    /\ UNCHANGED unsaved

Next ==
    \/ AddReservation \/ UpdateReservation \/ DeleteReservation
    \/ AddExpense \/ UpdateExpense \/ DeleteExpense
    \/ SubmitSettings
    \/ MarkMonthAsPaid \/ MarkMonthAsUnpaid
    \/ Tick
    \/ \E h \in HOOKS : FireTimer(h)
    \/ SettleFire
    \/ \E i \in 1..Len(writes), outcome \in Outcomes : WriteResponse(i, outcome)
    \/ \E i \in 1..Len(loads) : ReadOk(i)
    \/ \E i \in 1..Len(loads), outcome \in Outcomes : ReadFails(i, outcome)
    \/ SignInClick \/ LoginSuccess \/ UserInfoOk \/ LoginFails
    \/ TogglePersistAuth \/ ClearSessionExpired
    \/ SheetSetup
    \/ \E outcome \in Outcomes : SheetSetupSettles(outcome)

Spec == Init /\ [][Next]_vars

\* the browser runs a timeout that is due, and every request is answered
ReadAnswered ==
    \E i \in 1..Len(loads) : ReadOk(i) \/ \E outcome \in Outcomes : ReadFails(i, outcome)

WriteAnswered ==
    \E i \in 1..Len(writes), outcome \in Outcomes : WriteResponse(i, outcome)

TimerDue(h) == \E i \in 1..Len(timers[h]) : timers[h][i].left = 0

\* weak fairness of a tax hook's timeout, written with the due test in place
\* of ENABLED (the two agree whenever a request slot is free)
TimerRuns(h) == <>[]TimerDue(h) => []<><<FireTimer(h)>>_vars

FairSpec ==
    /\ Spec
    /\ WF_vars(Tick)
    /\ WF_vars(SettleFire)
    /\ WF_vars(ReadAnswered)
    /\ WF_vars(WriteAnswered)
    /\ \A h \in COLLECTIONS : WF_vars(FireTimer(h))
    /\ \A h \in HOOKS \ COLLECTIONS : TimerRuns(h)


(***************************************************************************)
(* Claims about the sync coordinator (checked under Spec)                  *)
(***************************************************************************)
CollectionSaves == {"saveReservations", "saveExpenses", "saveSettings"}

UserAdded(items) == \E i \in 1..Len(items) : items[i].id.kind = "uuid"

ExpiredHandled == lastError # NoResult /\ lastError.outcome = "expired"

\* C1: while the read-lock flag isLoadingData is raised no debounce timeout
\* is pending, and every write that went out to the remote store was
\* dispatched with the flag lowered, whatever mutations, timer expiries and
\* loads interleave.
C1_NoWriteWhileLoading ==
    /\ isLoadingData => timers = NoTimers
    /\ \A i \in 1..Len(writes) : ~writes[i].locked

\* a reservation was added on a page while the flag was still raised after
\* a load, and nothing was scheduled for it
C1_Witness ==
    /\ isLoadingData
    /\ PagesShown
    /\ UserAdded(reservations)
    /\ timers = NoTimers
    /\ writes = <<>>

\* C2: a tax-row write is dispatched only by a timeout that a change of the
\* paid-month set armed; a change of reservations, expenses or settings
\* alone never leads to a tax-row write.
C2_TaxWriteOnlyOnPaidChange ==
    \A i \in 1..Len(writes) : writes[i].fn = "saveTaxData" => writes[i].paid

C4_OneWriteOneQuietPeriodAfterLastMutation ==
    \A i \in 1..Len(writes) :
        writes[i].fn \in CollectionSaves => writes[i].final /\ ~writes[i].late


(***************************************************************************)
(* Claims about calculateTax (checked under SpecTax)                       *)
(***************************************************************************)
\* the bracket table as the documentation prints it
DocumentedBrackets ==
    << [maxIncome |-> 242881,   rate |-> 75,  deduction |-> 18216],
       [maxIncome |-> 282666,   rate |-> 150, deduction |-> 39416],
       [maxIncome |-> 375105,   rate |-> 225, deduction |-> 67549],
       [maxIncome |-> 466468,   rate |-> 275, deduction |-> 90873],
       [maxIncome |-> Infinity, rate |-> 275, deduction |-> 90873] >>

DocumentedBracketOf(t) ==
    DocumentedBrackets[CHOOSE i \in 1..Len(DocumentedBrackets) :
        /\ LessThanMax(t, DocumentedBrackets[i].maxIncome)
        /\ \A j \in 1..(i - 1) : ~LessThanMax(t, DocumentedBrackets[j].maxIncome)]

\* C5: for every taxable income t >= 0 calculateTax applies the rate and the
\* deduction of the first bracket of the table 2428.81 -> 7.5%/182.16,
\* 2826.66 -> 15%/394.16, 3751.05 -> 22.5%/675.49, 4664.68 -> 27.5%/908.73,
\* above -> 27.5%/908.73 whose upper bound is strictly greater than t, and
\* taxOwed = max(t * rate - bracketDeduction, 0) rounded to the cent.
C5_DocumentedBracketApplied ==
    taxOut # NoResult =>
        LET t == taxOut.taxableIncome
            b == DocumentedBracketOf(t)
        IN  /\ taxOut.taxRate = b.rate
            /\ taxOut.taxOwed =
                   MathRoundThousandths(Max(t * b.rate - b.deduction * 1000, 0))

\* C6: at taxableIncome = 2428.81 the rate is 7.5% and the tax is 0.00; at
\* taxableIncome = 2428.82, one cent above, the rate is 15%.
C6_BoundaryAt2428_81 ==
    taxOut # NoResult =>
        /\ taxOut.taxableIncome = 242881 => (taxOut.taxRate = 75 /\ taxOut.taxOwed = 0)
        /\ taxOut.taxableIncome = 242882 => taxOut.taxRate = 150

\* C7: for every liquidIncome (positive, zero or negative) and every
\* dependents >= 0, the taxOwed that calculateTax returns is >= 0.
C7_TaxNeverNegative == taxOut # NoResult => taxOut.taxOwed >= 0

\* calculateTax has run on a negative liquid income
C7_Witness ==
    taxOut # NoResult /\ taxIn.liquidIncome < 0 /\ taxOut.taxOwed = 0

C9_LossNotMasked ==
    (summary # NoResult /\ summary.result.liquidIncome <= summary.result.deduction) =>
        /\ summary.result.taxableIncome = 0
        /\ summary.result.taxOwed = 0
        /\ summary.result.profit = summary.result.liquidIncome

\* a month whose expenses exceed its income has been summarised
C9_Witness ==
    /\ summary # NoResult
    /\ summary.result.liquidIncome < 0
    /\ summary.result.totalDeductions > summary.result.totalIncome
    /\ summary.result.profit < 0

\* year and month number spelled by a month key YYYY-MM
KeyYear(key) == StringToNumber(SubSeq(key, 1, 4))
KeyMonth(key) == StringToNumber(SubSeq(key, 6, 7))

\* the date falls, on the local calendar, in month m of year y
InLocalMonth(date, y, m) == getFullYear(date) = y /\ getMonth(date) + 1 = m

RECURSIVE OwnerAmountInMonth(_, _, _)
OwnerAmountInMonth(i, y, m) ==
    IF i = 0 THEN 0
    ELSE (IF InLocalMonth(reservations[i].date, y, m) THEN reservations[i].ownerAmount ELSE 0)
             + OwnerAmountInMonth(i - 1, y, m)

RECURSIVE ExpenseAmountInMonth(_, _, _)
ExpenseAmountInMonth(i, y, m) ==
    IF i = 0 THEN 0
    ELSE (IF InLocalMonth(expenses[i].date, y, m) THEN expenses[i].amount ELSE 0)
             + ExpenseAmountInMonth(i - 1, y, m)

SameDispatchTwice(i) ==
    /\ paidTrail[i].op = paidTrail[i + 1].op
    /\ paidTrail[i].month = paidTrail[i + 1].month

PaidThenUnpaid(i) ==
    /\ paidTrail[i].op = "paid"
    /\ paidTrail[i + 1].op = "unpaid"
    /\ paidTrail[i].month = paidTrail[i + 1].month
    /\ ~Includes(paidTrail[i].before, paidTrail[i].month)

C11_MarkIdempotentAndInverse ==
    \A i \in 1..(Len(paidTrail) - 1) :
        /\ SameDispatchTwice(i) => paidTrail[i + 1].after = paidTrail[i].after
        /\ PaidThenUnpaid(i) => paidTrail[i + 1].after = paidTrail[i].before

C11_Witness ==
    /\ Len(paidTrail) = 2
    /\ PaidThenUnpaid(1)
    /\ paidTrail[1].before # <<>>
    /\ paidTrail[1].after # paidTrail[1].before
    /\ paidMonths = paidTrail[1].before

(***************************************************************************)
(* C12  The paid list changes only in a step that dispatches mark-paid or  *)
(* mark-unpaid, or in the step where a load stores the paid months it read; *)
(* a step that changes reservations, expenses or settings, or that          *)
(* dispatches or completes a write (tax rows included), leaves it as it is. *)
(* (Spec)                                                                   *)
(***************************************************************************)
MarkStep ==
    /\ inputs' = inputs + 1
    /\ UNCHANGED <<reservations, expenses, settings, sheetId>>
    /\ \E m \in {paidMonths[i] : i \in 1..Len(paidMonths)}
                 \cup {paidMonths'[i] : i \in 1..Len(paidMonths')} :
           \/ paidMonths' = markMonthAsPaid(paidMonths, m)
           \/ paidMonths' = markMonthAsUnpaid(paidMonths, m)

PaidLoadStep ==
    /\ \E i \in 1..Len(loads) : loads[i].step = "paidMonths" /\ loads[i].sent
    /\ Len(loads') < Len(loads)
    /\ dataLoaded'
    /\ UNCHANGED <<reservations, expenses, settings, writes>>

C12_PaidChangesOnlyByMarkOrLoad ==
    [][ /\ paidMonths' # paidMonths => MarkStep \/ PaidLoadStep
        /\ <<reservations, expenses, settings>>' # <<reservations, expenses, settings>>
               => paidMonths' = paidMonths
        /\ writes' # writes => paidMonths' = paidMonths ]_vars

C12_Witness ==
    /\ paidMonths # <<>>
    /\ reservations # <<>>
    /\ \E i \in 1..Len(writes) :
           /\ writes[i].fn = "saveTaxData"
           /\ \E k \in 1..Len(writes[i].rows) : writes[i].rows[k].isPaid

(***************************************************************************)
(* C13  When a read of a load has just failed: after an authentication     *)
(* failure the session is signed out; after any other failure the session  *)
(* is still signed in and the pages are usable (no loading screen), with   *)
(* whatever the load had stored so far.  (Spec)                            *)
(***************************************************************************)
ReadFailureHandled == lastError # NoResult /\ lastError.kind = "read"

C13_ReadFailureLeavesSessionUsable ==
    ReadFailureHandled =>
        IF lastError.outcome = "expired"
        THEN ~isSignedIn
        ELSE isSignedIn /\ sheetId # Null /\ PagesShown

(***************************************************************************)
(* C14  When a write of reservations or expenses has just completed        *)
(* without a failure and without another write of the same range in flight *)
(* at any time during it, the range holds exactly the rows of the          *)
(* collection that was handed to the write (no rows when it was empty).    *)
(* (SpecSheet)                                                             *)
(***************************************************************************)
WroteAlone == done # NoResult /\ done.ok /\ done.alone

C15_RoundTripKeepsLocalDay ==
    trip # NoResult =>
        /\ Len(trip.after) = Len(trip.before)
        /\ \A i \in 1..Len(trip.before) :
               /\ toLocalDateString(trip.after[i].date)
                      = toLocalDateString(trip.before[i].date)
               /\ formatMonth(trip.after[i].date) = formatMonth(trip.before[i].date)

(***************************************************************************)
(* C16  In every reachable state the owner split and the admin split of    *)
(* the local settings are between 0 and 1 and add up to 1.  (SpecSettings)  *)
(***************************************************************************)
C16_SplitsSumToOne ==
    /\ settings.ownerSplit >= 0 /\ settings.ownerSplit <= 100
    /\ settings.adminSplit >= 0 /\ settings.adminSplit <= 100
    /\ settings.ownerSplit + settings.adminSplit = 100

(***************************************************************************)
(* C17  Every reservation has ownerAmount + adminFee = total, and a step   *)
(* that changes the splits of the settings changes no reservation.         *)
(* (SpecSettings)                                                          *)
(***************************************************************************)
C17_AmountsSplitTotalAndFrozen ==
    [][ /\ \A i \in 1..Len(reservations') :
              reservations'[i].ownerAmount + reservations'[i].adminFee
                  = reservations'[i].total
        /\ settings' # settings => reservations' = reservations ]_vars

(***************************************************************************)
(* C18  The expiry of a token is the time of the sign-in plus              *)
(* expires_in * 1000 and is stored.  When the page loads and the stored    *)
(* expiry is at or before the current time, the session is not restored:   *)
(* isSignedIn is false, the access token is null and the stored auth       *)
(* entries are removed; the session-expired notice is raised exactly when  *)
(* the stored signed-in flag was set.  (SpecAuth)                          *)
(***************************************************************************)
Event(kind) == authEvent # NoResult /\ authEvent.kind = kind

SelectedEntries ==
    IF persistAuthItem # "false" THEN localStorage ELSE sessionStorage

LoadedExpired ==
    /\ Event("mount")
    /\ authEvent.expiresAt # Null
    /\ StringToNumber(authEvent.expiresAt) <= authEvent.at

ExpiryComputedAndStored ==
    Event("token") =>
        /\ tokenExpiresAt = authEvent.at + authEvent.expiresIn * 1000
        /\ SelectedEntries.expiresAt = NumberToString(tokenExpiresAt)

SessionDropped ==
    /\ ~isSignedIn
    /\ accessToken = Null
    /\ tokenExpiresAt = NoExpiry
    /\ SelectedEntries = NoEntries

C19_FailedSignInChangesNothing ==
    Event("signInFailed") =>
        /\ authError # Null
        /\ AuthState = attempt

SameItem(a, b) ==
    IF b = Null THEN a = Null ELSE a # Null /\ a = b

SameItems(held, wanted) ==
    \A key \in DOMAIN wanted : SameItem(held[key], wanted[key])

(***************************************************************************)
(* C20  When the persist-auth preference has just been toggled while       *)
(* signed in, the storage the new preference selects holds the signed-in   *)
(* flag, the user email, the access token and the token expiry as the      *)
(* other storage held them before, and the other storage holds none of     *)
(* them.  (SpecAuth)                                                       *)
(***************************************************************************)
C20_ToggleMigratesAuthData ==
    Event("toggle") /\ isSignedIn =>
        LET target == IF authEvent.persist THEN localStorage ELSE sessionStorage
            other == IF authEvent.persist THEN sessionStorage ELSE localStorage
        IN  /\ target.isSignedIn = "true"
            /\ SameItems(target, authEvent.before)
            /\ SameItems(other, NoEntries)

(***************************************************************************)
(* C21  getMostRecentUnpaidMonth returns the most recent month that is      *)
(* strictly before the current month, has data, is not marked paid and has  *)
(* taxOwed > 0; it returns null when there is no such month.  (SpecNotice)  *)
(***************************************************************************)
MonthsWithData == getAllMonths(reservations, expenses)

OwesTax(month) ==
    MonthlyTaxOf(month, reservations, expenses, settings.dependents, paidMonths).taxOwed > 0

Notifiable(month) ==
    /\ Includes(MonthsWithData, month)
    /\ StringLess(month, formatMonth(today))
    /\ ~Includes(paidMonths, month)
    /\ OwesTax(month)

C21_MostRecentUnpaidMonthOwingTax ==
    notice # NoResult =>
        IF \E i \in 1..Len(MonthsWithData) : Notifiable(MonthsWithData[i])
        THEN /\ notice.result # Null
             /\ Notifiable(notice.result)
             /\ \A i \in 1..Len(MonthsWithData) :
                    Notifiable(MonthsWithData[i]) =>
                        ~StringLess(notice.result, MonthsWithData[i])
        ELSE notice.result = Null

(***************************************************************************)
(* C22  For each collection, once no debounce timer is pending (the latest  *)
(* write carried the collection as it is now) and every dispatched write    *)
(* has completed without error, the remote range holds exactly the rows of  *)
(* the local collection, also when two writes of the collection were in     *)
(* flight at the same time.  (SpecSheet)                                    *)
(***************************************************************************)
CollectionOf(fn) == IF fn = "writeReservations" THEN reservations ELSE expenses

RowsWrittenFor(fn) ==
    IF fn = "writeReservations" THEN UserEntered(reservationValues(reservations))
    ELSE UserEntered(expenseValues(expenses))

AllWritesSettled(fn) ==
    /\ sheetLog[fn] # NoResult
    /\ sheetLog[fn].clean
    /\ sheetLog[fn].of = CollectionOf(fn)
    /\ ~Overlaps(fn)

C22_SettledWritesLeaveLocalRows ==
    \A fn \in WRITE_FNS :
        AllWritesSettled(fn) => remote[RangeOf(fn)] = RowsWrittenFor(fn)

(***************************************************************************)
(* C23  A tax-row write never changes a month's remote is_paid flag from    *)
(* true to false, nor removes its row, unless the user marked that month    *)
(* unpaid on the Taxes page.  (SpecTaxSheet)                                *)
(***************************************************************************)
PaidRemotely(rows, serial) ==
    \E i \in 1..Len(rows) : rows[i].month = serial /\ rows[i].isPaid

UnmarkedSerials == {SerialOfMonthText(month) : month \in unmarked}

PaidFlagsKept ==
    \A i \in 1..Len(remoteTax) :
        remoteTax[i].isPaid /\ remoteTax[i].month \notin UnmarkedSerials
            => PaidRemotely(remoteTax', remoteTax[i].month)

C23_TaxWriteKeepsPaidFlags == [][remoteTax' # remoteTax => PaidFlagsKept]_vars

(***************************************************************************)
(* C24  Every mutation of reservations, expenses or settings made on a page *)
(* is eventually handed to a write of its collection, unless a load         *)
(* replaces the collection or the session ends, also when it is made while  *)
(* the read-lock flag is still raised.  (FairSpec)                          *)
(***************************************************************************)
C24_MutationEventuallyWritten ==
    \A c \in COLLECTIONS : (c \in unsaved) ~> (c \notin unsaved \/ ~isSignedIn)

(***************************************************************************)
(* C25  Every load that starts leaves the loading indicator cleared: the    *)
(* loading-screen condition of App (signed in, sheet known, not dataLoaded, *)
(* dataLoading) never holds forever, whether the reads succeeded or one     *)
(* failed.  (FairSpec)                                                      *)
(***************************************************************************)
LoadingScreen == isSignedIn /\ sheetId # Null /\ ~dataLoaded /\ dataLoading

C25_LoadingIndicatorCleared == LoadingScreen ~> ~LoadingScreen

(***************************************************************************)
(* C26  After every load that passed its guard, whether its reads succeeded *)
(* or one failed, the read-lock flag is lowered again: it never stays       *)
(* raised forever.  (FairSpec)                                              *)
(***************************************************************************)
C26_ReadLockLowered == isLoadingData ~> ~isLoadingData

\* a load has failed (state.app still says loading) and the flag is lowered
\* again, with no load and no timeout left
C26_Witness ==
    /\ ~isLoadingData
    /\ isSignedIn /\ sheetId # Null
    /\ dataLoading /\ ~dataLoaded
    /\ loads = <<>> /\ settleTimers = <<>>

(***************************************************************************)
(* C27  A load reads settings, then reservations, then expenses, then paid  *)
(* months, one read after the other has completed, starting with settings;  *)
(* every successful read leaves in the local collection exactly what was    *)
(* read, whatever the collection held before.  (Spec)                       *)
(***************************************************************************)
ReadOrder == <<"settings", "reservations", "expenses", "paidMonths">>

PositionOf(step) == CHOOSE k \in 1..Len(ReadOrder) : ReadOrder[k] = step

\* the local collection of a step holds, after the step, what a read returns
ReplacedByRead(step) ==
    CASE step = "settings"     -> settings' \in ReadableSettings
      [] step = "reservations" -> reservations' \in ReadableReservations
      [] step = "expenses"     -> expenses' \in ReadableExpenses
      [] OTHER                 -> paidMonths' \in ReadablePaidMonths

HooksWriting(fn) == {h \in HOOKS : SaveClosure(h, <<>>, <<>>, DefaultSettings, <<>>).fn = fn}

RECURSIVE PendingIn(_)
PendingIn(hooks) ==
    IF hooks = {} THEN 0
    ELSE LET h == CHOOSE x \in hooks : TRUE
         IN  Len(timers[h]) + PendingIn(hooks \ {h})

C28_OneTimerPerCollection ==
    \A fn \in {"saveReservations", "saveExpenses", "saveSettings", "saveTaxData"} :
        PendingIn(HooksWriting(fn)) <= 1

(***************************************************************************)
(* C29  While initializeSheets of the onboarding is still running, no read  *)
(* request of the initial load has been sent to the sheet.  (Spec)          *)
(***************************************************************************)
C29_NoReadBeforeSheetsInitialized ==
    initPending => \A i \in 1..Len(loads) : ~loads[i].sent

(***************************************************************************)
(* C30  The read-lock flag is raised at every moment at which a load is in  *)
(* progress, also when loadData runs again before an earlier run and its    *)
(* delayed lowering of the flag have finished.  (Spec)                      *)
(***************************************************************************)
C30_FlagRaisedDuringLoad == loads # <<>> => isLoadingData

=============================================================================
